---- MODULE Spec2Model ----
(***************************************************************************)
(* Orchestration engine: complexity classification (MetaOrchestrator),     *)
(* resilience layer (ResilienceManager) and the conversation engine's      *)
(* execution strategies (MultiAgentConversationEngine).                    *)
(*                                                                         *)
(* Scores are kept in quarter units (score * 4) so that sum / 4.0 stays an *)
(* integer; times are whole seconds; confidences are percent.              *)
(***************************************************************************)
EXTENDS Integers, Sequences, FiniteSets, TLC

VARIABLES
    request,            \* analyze_complexity: the request text, as a sequence of words
    analysis,           \* analyze_complexity: the returned (score, pattern), or NoAnalysis
    now,                \* datetime.now(), in seconds
    circuit_breakers,   \* ResilienceManager.circuit_breakers: expert -> breaker
    consecutive,        \* history: failures of an expert since its last successful call
    last_check,         \* history: the last check_circuit_breaker call and its answer
    rate_limits,        \* ResilienceManager.rate_limits: client -> window
    last_limit,         \* history: the last check_rate_limit call and its answer
    light_calls,        \* number of check_rate_limit calls the light client has made
    active_threads,     \* engine.active_threads: thread id -> ConversationThread
    flow,               \* the coroutine running each thread: its position and locals
    results,            \* thread id -> the ConversationResult start_conversation returned
    conversation_history,   \* engine.conversation_history, as the thread ids of the results
    expert_availability,    \* engine.expert_availability (defaultdict: True)
    expert_load,            \* engine.expert_load (defaultdict: 0)
    active_sessions,    \* MetaOrchestrator.active_sessions: session id -> ExpertMemory
    task_queue,         \* MetaOrchestrator.task_queue
    expert_performance, \* MetaOrchestrator.expert_performance: expert -> ExpertPerformance
    reply,              \* what the last orchestrate_response call returned or raised
    selection,          \* history: the last select_experts call, its scores and its answer
    submitted,          \* history: session id -> number of orchestrate_response calls made with it
    times_selected,     \* history: expert -> number of requests whose selected experts held it
    builder_call,       \* decompose_task: the pattern and experts it is given, and what it built
    round_responses,    \* _calculate_consensus_level: the list of responses it is given
    consensus           \* _calculate_consensus_level: the returned level, or NoConsensus

vars == <<request, analysis, now, circuit_breakers, consecutive, last_check,
          rate_limits, last_limit, light_calls, active_threads, flow, results,
          conversation_history, expert_availability, expert_load,
          active_sessions, task_queue, expert_performance, reply, selection,
          submitted, times_selected, builder_call, round_responses, consensus>>

cxVars == <<request, analysis>>
cbVars == <<circuit_breakers, consecutive, last_check>>
rlVars == <<rate_limits, last_limit, light_calls>>
convVars == <<active_threads, flow, results, conversation_history,
              expert_availability, expert_load>>
orVars == <<active_sessions, task_queue, expert_performance, reply, selection, submitted,
            times_selected>>
fnVars == <<round_responses, consensus, builder_call>>

----------------------------------------------------------------------------
(* Bounds *)

MaxWords == 7
MaxFailures == 4
MaxLight == 2
MaxParticipants == 2
MaxFanout == 3
MaxDebate == 5
MaxResponses == 6
MaxCalls == 2
MaxRequired == 4

----------------------------------------------------------------------------
(* MetaOrchestrator.analyze_complexity *)

Vocabulary == {"react", "database", "build", "system", "the"}

MultiDomainWords == {"react", "python", "database", "docker", "test"}
TechnicalTerms == {"api", "database", "frontend", "backend", "deploy"}
ActionVerbs == {"build", "create", "implement", "design", "develop"}
ScopeIndicators == {"system", "platform", "application", "solution"}

\* len(re.findall(r'\b(w1|w2|...)\b', request.lower()))
CountMatches(req, words) == Cardinality({i \in 1..Len(req) : req[i] \in words})

ComplexityIndicators(req) ==
    [multi_domain     |-> CountMatches(req, MultiDomainWords),
     technical_terms  |-> CountMatches(req, TechnicalTerms),
     action_verbs     |-> CountMatches(req, ActionVerbs),
     scope_indicators |-> CountMatches(req, ScopeIndicators)]

\* sum(complexity_indicators.values()) / 4.0, in quarter units
SubtractedScore(ind) ==
    ind.multi_domain + ind.technical_terms + ind.action_verbs - ind.scope_indicators

ComplexityScore(ind) ==
    ind.multi_domain + ind.technical_terms + ind.action_verbs + ind.scope_indicators

\* the thresholds 3.0, 2.0 and 1.0 in quarter units
Hierarchical4 == 12
Concurrent4 == 8
Sequential4 == 4

StrictPattern(score) ==
    IF score > Hierarchical4 THEN "hierarchical"
    ELSE IF score > Concurrent4 THEN "concurrent"
    ELSE IF score > Sequential4 THEN "sequential"
    ELSE "handoff"

SelectPattern(score) ==
    IF score >= Hierarchical4 THEN "hierarchical"
    ELSE IF score >= Concurrent4 THEN "concurrent"
    ELSE IF score >= Sequential4 THEN "sequential"
    ELSE "handoff"

NoAnalysis == [done |-> FALSE, indicators |-> ComplexityIndicators(<<>>),
               score |-> 0, pattern |-> "none"]

cxIdle == request = <<>> /\ analysis = NoAnalysis

analyze_complexity ==
    /\ ~analysis.done
    /\ LET ind == ComplexityIndicators(request)
           score == ComplexityScore(ind)
       IN analysis' = [done |-> TRUE, indicators |-> ind,
                       score |-> score, pattern |-> SelectPattern(score)]
    /\ UNCHANGED <<request, now, cbVars, rlVars, convVars, orVars, fnVars>>

----------------------------------------------------------------------------
(* The clock *)

BreakerClock == {0, 59, 60, 61, 86430}
RateClock == {0, 60, 86430}

\* timedelta.seconds: the seconds field of a non-negative timedelta (days dropped)
SecondsPerDay == 86400
Seconds(delta) == delta % SecondsPerDay

Tick(clock) ==
    /\ \E t \in clock : t > now /\ now' = t
    /\ UNCHANGED <<cxVars, cbVars, rlVars, convVars, orVars, fnVars>>

----------------------------------------------------------------------------
(* ResilienceManager: circuit breakers *)

BreakerExperts == {"react-expert", "python-expert"}

NoTime == -1
FailureThreshold == 3
BreakerCooldown == 60

FreshBreaker == [failures |-> 0, last_failure |-> NoTime, state |-> "closed"]

\* the entry created anew on every call
RenewBreaker(cbs, e) ==
    [x \in DOMAIN cbs \cup {e} |-> IF x = e THEN FreshBreaker ELSE cbs[x]]

\* if expert_name not in self.circuit_breakers: create the entry
EnsureBreaker(cbs, e) == IF e \in DOMAIN cbs THEN cbs ELSE cbs @@ (e :> FreshBreaker)

\* (datetime.now() - breaker["last_failure"]).seconds > 60
ShortCooldownElapsed(last_failure, t) == Seconds(t - last_failure) > 30

CooldownElapsed(last_failure, t) == Seconds(t - last_failure) > BreakerCooldown

NoCheck == [expert |-> "none", was_open |-> FALSE, elapsed |-> 0,
            permitted |-> FALSE, state |-> "closed"]

cbIdle == circuit_breakers = <<>> /\ last_check = NoCheck
             /\ consecutive = [e \in BreakerExperts |-> 0]

check_circuit_breaker(e) ==
    LET cbs == EnsureBreaker(circuit_breakers, e)
        breaker == cbs[e]
        retry == /\ breaker.state = "open"
                 /\ breaker.last_failure # NoTime
                 /\ CooldownElapsed(breaker.last_failure, now)
        permitted == breaker.state # "open" \/ retry
        after == IF retry THEN [breaker EXCEPT !.state = "half_open"] ELSE breaker
    IN /\ circuit_breakers' = [cbs EXCEPT ![e] = after]
       /\ last_check' = [expert |-> e, was_open |-> breaker.state = "open",
                         elapsed |-> IF breaker.last_failure = NoTime THEN 0
                                     ELSE now - breaker.last_failure,
                         permitted |-> permitted, state |-> after.state]
       /\ UNCHANGED <<consecutive, now, cxVars, rlVars, convVars, orVars, fnVars>>

record_failure(e) ==
    LET cbs == EnsureBreaker(circuit_breakers, e)
        breaker == cbs[e]
        failures == breaker.failures + 1
    IN /\ breaker.failures < MaxFailures
       /\ circuit_breakers' =
             [cbs EXCEPT ![e] = [failures |-> failures, last_failure |-> now,
                                 state |-> IF failures >= FailureThreshold
                                           THEN "open" ELSE breaker.state]]
       /\ consecutive' = [consecutive EXCEPT ![e] = @ + 1]
       /\ UNCHANGED <<last_check, now, cxVars, rlVars, convVars, orVars, fnVars>>

\* A permitted call to the expert returns normally: the manager has no
\* handler for it, so no breaker changes.
call_succeeded(e) ==
    /\ last_check.expert = e /\ last_check.permitted
    /\ consecutive[e] > 0
    /\ consecutive' = [consecutive EXCEPT ![e] = 0]
    /\ UNCHANGED <<circuit_breakers, last_check, now, cxVars, rlVars, convVars, orVars, fnVars>>

BreakerState(e) ==
    IF e \in DOMAIN circuit_breakers THEN circuit_breakers[e].state ELSE "closed"

----------------------------------------------------------------------------
(* ResilienceManager: rate limiter *)

Clients == {"heavy", "light"}

RateLimit == 100
RateWindow == 60

FreshClient == [requests |-> <<>>, window_start |-> 0]

\* [req_time for req_time in requests if (datetime.now() - req_time).seconds < 60]
InWindow(req_time, t) == Seconds(t - req_time) < RateWindow

CleanOld(requests, t) == SelectSeq(requests, LAMBDA req_time : InWindow(req_time, t))

NoLimit == [client |-> "none", accepted |-> FALSE, recent |-> 0, stale |-> 0]

rlIdle == rate_limits = <<>> /\ last_limit = NoLimit /\ light_calls = 0

\* history: how many of the stored request times are less than 60 seconds old
\* at time t, and how many are not
Recent(requests, t) ==
    Cardinality({i \in 1..Len(requests) : t - requests[i] < RateWindow})

Stale(requests, t) == Len(requests) - Recent(requests, t)

check_rate_limit(c) ==
    LET rls == IF c \in DOMAIN rate_limits THEN rate_limits
               ELSE rate_limits @@ (c :> [FreshClient EXCEPT !.window_start = now])
        client == rls[c]
        kept == CleanOld(client.requests, now)
        accepted == Len(kept) < RateLimit
    IN /\ c = "light" => light_calls < MaxLight
       /\ light_calls' = IF c = "light" THEN light_calls + 1 ELSE light_calls
       /\ rate_limits' = [rls EXCEPT ![c].requests =
                             IF accepted THEN Append(kept, now) ELSE kept]
       /\ last_limit' = [client |-> c, accepted |-> accepted,
                         recent |-> Recent(client.requests, now),
                         stale |-> Stale(kept, now)]
       /\ UNCHANGED <<now, cxVars, cbVars, convVars, orVars, fnVars>>

----------------------------------------------------------------------------
(* MultiAgentConversationEngine: data *)

Threads == {"t1", "t2"}
ConvExperts == {"react-expert", "python-expert"}
ExecutedPatterns == {"sequential_chain", "concurrent_processing"}

\* a text is modelled by the set of theme words it holds; the sessions of
\* one run serve the same request
Topics == {{}, {"test"}}

\* random.uniform(0.7, 0.95), in percent
Confidences == {70, 95}
\* r.get("confidence", 0.8)
DefaultConfidence == 80

\* str(e) of the exception a worker invocation raises
Reasons == {<<>>, <<"worker timeout">>}

ParticipantLists == UNION {[1..n -> ConvExperts] : n \in 0..MaxParticipants}

\* _generate_expert_specific_response: the theme words of the expert's template
TemplateWords(expert) ==
    CASE expert = "react-expert" -> {"implement"}
      [] expert = "backend-architect" -> {"architecture", "design"}
      [] expert = "testing-expert" -> {"test"}
      [] OTHER -> {}

\* the template followed by the request; _modify_response_based_on_context
\* puts the last expert and the chain position in front of it
Content(expert, topic, previous, position) ==
    [by |-> expert, words |-> TemplateWords(expert) \cup topic,
     after |-> IF previous = <<>> THEN "none" ELSE previous[Len(previous)].expert,
     position |-> IF previous = <<>> THEN 0 ELSE position]

NoContent == [by |-> "none", words |-> {}, after |-> "none", position |-> 0]

\* the dict _generate_expert_response returns
Response(expert, topic, previous, position, confidence) ==
    [kind |-> "response", expert |-> expert,
     content |-> Content(expert, topic, previous, position),
     confidence |-> confidence]

\* {"expert": expert_name, "error": "Expert not available"}
ErrorDict(expert) ==
    [kind |-> "error", expert |-> expert, content |-> NoContent, confidence |-> 0]

Raised(expert) ==
    [kind |-> "raised", expert |-> expert, content |-> NoContent, confidence |-> 0]

NoOutcome == [kind |-> "none", expert |-> "none", content |-> NoContent, confidence |-> 0]

\* r.get("confidence", 0.8)
ConfidenceOf(r) == IF r.kind = "error" THEN DefaultConfidence ELSE r.confidence

RECURSIVE SumConfidence(_)
SumConfidence(responses) ==
    IF responses = <<>> THEN 0
    ELSE ConfidenceOf(Head(responses)) + SumConfidence(Tail(responses))

Min(a, b) == IF a < b THEN a ELSE b

\* _calculate_consensus_level, as the fraction num / den of 100 percent:
\* avg_confidence * min(len / 5.0, 1.0)
UnscaledConsensus(rs) ==
    IF Len(rs) < 2 THEN [num |-> 100, den |-> 1]
    ELSE [num |-> SumConfidence(rs), den |-> Len(rs)]

ConsensusLevel(responses) ==
    LET n == Len(responses)
    IN IF n < 2 THEN [num |-> 100, den |-> 1]
       ELSE [num |-> SumConfidence(responses) * Min(n, 5), den |-> n * 5]

NoConsensus == [done |-> FALSE, level |-> [num |-> 0, den |-> 1]]

NoBuilt == [done |-> FALSE]

fnIdle == round_responses = <<>> /\ consensus = NoConsensus /\ builder_call = NoBuilt

\* one call of _calculate_consensus_level on the list round_responses
calculate_consensus_level ==
    /\ ~consensus.done
    /\ consensus' = [done |-> TRUE, level |-> ConsensusLevel(round_responses)]
    /\ UNCHANGED <<round_responses, builder_call, cxVars, now, cbVars, rlVars, convVars, orVars>>

\* {r["expert"]: r for r in responses}: a later entry replaces an earlier one
Contributions(responses) ==
    [e \in {responses[i].expert : i \in 1..Len(responses)} |->
        LET last == CHOOSE i \in 1..Len(responses) :
                       /\ responses[i].expert = e
                       /\ \A j \in (i + 1)..Len(responses) : responses[j].expert # e
        IN responses[last]]

NoResponses == <<[part |-> "No expert responses available."]>>

\* _synthesize_sequential_responses
SynthesizeSequential(responses) ==
    IF responses = <<>> THEN NoResponses
    ELSE [i \in 1..Len(responses) |->
             [part |-> "contribution", expert |-> responses[i].expert,
              content |-> responses[i].content]]
         \o <<[part |-> "Integrated Solution"]>>

\* the theme detection in _synthesize_concurrent_responses
ThemeOf(content) ==
    IF content.words \cap {"architecture", "design"} # {} THEN "Architecture & Design"
    ELSE IF content.words \cap {"implement", "code"} # {} THEN "Implementation"
    ELSE IF content.words \cap {"test", "quality"} # {} THEN "Testing & Quality"
    ELSE "General"

\* the keys of the themes dict, in insertion order
RECURSIVE ThemeOrder(_, _)
ThemeOrder(responses, seen) ==
    IF responses = <<>> THEN seen
    ELSE LET theme == ThemeOf(Head(responses).content)
         IN ThemeOrder(Tail(responses),
                       IF \E k \in 1..Len(seen) : seen[k] = theme
                       THEN seen ELSE Append(seen, theme))

ThemeSection(responses, theme) ==
    <<[part |-> "heading", theme |-> theme]>>
    \o LET mine == SelectSeq(responses, LAMBDA r : ThemeOf(r.content) = theme)
       IN [i \in 1..Len(mine) |->
              [part |-> "contribution", expert |-> mine[i].expert,
               content |-> mine[i].content]]
    \o <<[part |-> ""]>>

RECURSIVE Sections(_, _)
Sections(responses, themes) ==
    IF themes = <<>> THEN <<>>
    ELSE ThemeSection(responses, Head(themes)) \o Sections(responses, Tail(themes))

\* _synthesize_concurrent_responses
SynthesizeConcurrent(responses) ==
    IF responses = <<>> THEN NoResponses
    ELSE Sections(responses, ThemeOrder(responses, <<>>))
         \o <<[part |-> "Concurrent Analysis"]>>

\* f"Conversation failed: {str(e)}"
FailureText(reason) == <<[part |-> "Conversation failed: "]>> \o reason

NoResult == [returned |-> FALSE]

\* the ConversationResult of a strategy that ran to its end
StrategyResult(t, thread, final, responses, count) ==
    [returned |-> TRUE, thread_id |-> t, final_response |-> final,
     participating_experts |-> thread.participants,
     consensus_level |-> ConsensusLevel(responses),
     message_count |-> count, success |-> TRUE,
     expert_contributions |-> Contributions(responses)]

\* the error_result of start_conversation
ErrorResult(t, thread, reason) ==
    [returned |-> TRUE, thread_id |-> t, final_response |-> FailureText(reason),
     participating_experts |-> thread.participants,
     consensus_level |-> [num |-> 0, den |-> 1],
     message_count |-> 0, success |-> FALSE,
     expert_contributions |-> <<>>]

\* _extract_approval_score: `keyword in review_content.lower()` is a substring
\* test, so "incomplete" also holds "complete"
PositiveKeywords == {"approved", "good", "excellent", "perfect", "complete", "ready"}
NegativeKeywords == {"needs", "improve", "fix", "change", "incomplete", "missing"}

KeywordCount(keywords, content) ==
    Cardinality({k \in keywords : \E w \in content.words :
                    k = w \/ (k = "complete" /\ w = "incomplete")})

\* positive_count / total_keywords as the fraction num / den of 100 percent
ApprovalScore(content) ==
    LET positive_count == KeywordCount(PositiveKeywords, content)
        total_keywords == positive_count + KeywordCount(NegativeKeywords, content)
    IN IF total_keywords = 0 THEN [num |-> 80, den |-> 1]
       ELSE [num |-> 100 * positive_count, den |-> total_keywords]

\* approval_score > 0.8
ApprovedAbove(score) == score.num > 80 * score.den

\* approval_score >= 0.8
Approved(score) == score.num >= 80 * score.den

max_iterations == 3

\* the ConversationResult of _maker_checker_loop_conversation
MakerCheckerResult(t, maker, checker, fl) ==
    LET final == fl.feedback_history[Len(fl.feedback_history)]
    IN [returned |-> TRUE, thread_id |-> t,
        final_response |->
            <<[part |-> "solution", content |-> final.maker_response.content],
              IF Approved(final.approval_score)
              THEN [part |-> "Approved by", checker |-> checker,
                    iterations |-> fl.iteration_count]
              ELSE [part |-> "Completed after", iterations |-> max_iterations]>>,
        participating_experts |-> <<maker, checker>>,
        consensus_level |-> final.approval_score,
        message_count |-> fl.iteration_count * 2, success |-> TRUE,
        expert_contributions |->
            [maker |-> [iterations |-> fl.iteration_count,
                        final_solution |-> fl.current_solution],
             checker |-> [reviews |-> Len(fl.feedback_history),
                          final_approval |-> final.approval_score]],
        quality_metrics |->
            [iterations_required |-> fl.iteration_count,
             final_approval_score |-> final.approval_score]]

\* skipped, raised and round_log are history: the positions of the chain
\* passed over because their expert was unavailable, whether an invocation
\* raised, and the round_messages of every finished debate round
NoFlow == [pc |-> "idle", i |-> 0, expert_responses |-> <<>>, tasks |-> <<>>,
           skipped |-> {}, raised |-> FALSE,
           iteration_count |-> 0, current_solution |-> NoOutcome,
           feedback_history |-> <<>>,
           round_num |-> 0, round_messages |-> <<>>, discussion_messages |-> <<>>,
           consensus_reached |-> FALSE, round_log |-> <<>>]

convIdle ==
    /\ active_threads = <<>>
    /\ flow = [t \in Threads |-> NoFlow]
    /\ results = [t \in Threads |-> NoResult]
    /\ conversation_history = <<>>
    /\ expert_availability = [e \in ConvExperts |-> TRUE]
    /\ expert_load = [e \in ConvExperts |-> 0]

----------------------------------------------------------------------------
(* MultiAgentConversationEngine: start_conversation and the strategies.     *)
(* A coroutine runs without interruption up to its next suspension, the     *)
(* asyncio.sleep inside _generate_expert_response or the await of gather.   *)

otherVars == <<cxVars, now, cbVars, rlVars, orVars, fnVars>>

\* the first position from `from` on whose expert is available, or 0
FirstAvailable(participants, from, avail) ==
    LET ready == {j \in from..Len(participants) : avail[participants[j]]}
    IN IF ready = {} THEN 0 ELSE CHOOSE j \in ready : \A k \in ready : j <= k

\* start_conversation after the strategy returned `result`
Complete(t, thread, result, fl) ==
    /\ results' = [results EXCEPT ![t] = result]
    /\ conversation_history' = Append(conversation_history, t)
    /\ active_threads' = IF t \in DOMAIN active_threads
                         THEN [active_threads EXCEPT ![t] = [thread EXCEPT !.status = "completed"]]
                         ELSE active_threads @@ (t :> [thread EXCEPT !.status = "completed"])
    /\ flow' = [flow EXCEPT ![t] = [fl EXCEPT !.pc = "returned"]]

\* the except branch taking the way of the try block
FailTurned(t, thread, reason, fl) ==
    Complete(t, thread, ErrorResult(t, thread, reason), fl)

\* start_conversation's except branch
Fail(t, thread, reason, fl) ==
    /\ results' = [results EXCEPT ![t] = ErrorResult(t, thread, reason)]
    /\ active_threads' = IF t \in DOMAIN active_threads
                         THEN [active_threads EXCEPT ![t] = [thread EXCEPT !.status = "failed"]]
                         ELSE active_threads @@ (t :> [thread EXCEPT !.status = "failed"])
    /\ flow' = [flow EXCEPT ![t] = [fl EXCEPT !.pc = "returned"]]
    /\ UNCHANGED conversation_history

\* what a failed invocation does to the chain: the exception leaves the loop
IgnoreFailure(t, thread, reason, fl) ==
    Complete(t, thread,
             StrategyResult(t, thread, SynthesizeSequential(fl.expert_responses),
                            fl.expert_responses, Len(thread.messages)), fl)

Abort(t, thread, reason, fl) == Fail(t, thread, reason, fl)

\* the loop of _sequential_chain_conversation from position `from` on, up to
\* the next invocation or the end of the chain
SeqContinue(t, thread, fl, from, avail, load) ==
    LET j == FirstAvailable(thread.participants, from, avail)
        last == IF j = 0 THEN Len(thread.participants) ELSE j - 1
        passed == [fl EXCEPT !.skipped =
                      @ \cup {k \in from..last : ~avail[thread.participants[k]]}]
    IN IF j = 0
       THEN /\ Complete(t, thread,
                        StrategyResult(t, thread, SynthesizeSequential(fl.expert_responses),
                                       fl.expert_responses, Len(thread.messages)),
                        passed)
            /\ expert_availability' = avail
            /\ expert_load' = load
       ELSE /\ expert_availability' = [avail EXCEPT ![thread.participants[j]] = FALSE]
            /\ expert_load' = [load EXCEPT ![thread.participants[j]] = @ + 1]
            /\ flow' = [flow EXCEPT ![t] = [passed EXCEPT !.pc = "invoking", !.i = j]]
            /\ active_threads' = IF t \in DOMAIN active_threads
                                 THEN [active_threads EXCEPT ![t] = thread]
                                 ELSE active_threads @@ (t :> thread)
            /\ UNCHANGED <<results, conversation_history>>

\* a coroutine handed to gather; rank records the position in which it
\* finished among the tasks of its gather (0 while it has not)
NewTask(expert) ==
    [expert |-> expert, st |-> "pending", outcome |-> NoOutcome, rank |-> 0]

\* the number of tasks that have finished
Finished(tasks) == Cardinality({j \in 1..Len(tasks) : tasks[j].st = "done"})

\* _concurrent_processing_conversation up to the await of asyncio.gather
ConcBegin(t, thread) ==
    LET ready == SelectSeq(thread.participants, LAMBDA e : expert_availability[e])
        tasks == [k \in 1..Len(ready) |-> NewTask(ready[k])]
        fl == [NoFlow EXCEPT !.tasks = tasks]
    IN IF tasks = <<>>
       THEN Complete(t, thread,
                     StrategyResult(t, thread, SynthesizeConcurrent(<<>>), <<>>, 0), fl)
       ELSE /\ flow' = [flow EXCEPT ![t] = [fl EXCEPT !.pc = "gathering"]]
            /\ active_threads' = active_threads @@ (t :> thread)
            /\ UNCHANGED <<results, conversation_history>>

\* the roles of _group_chat_debate_conversation
Facilitator(thread) ==
    IF thread.participants = <<>> THEN "backend-architect" ELSE thread.participants[1]

Debaters(thread) ==
    IF Len(thread.participants) > 1 THEN Tail(thread.participants) ELSE <<>>

\* set in __init__ and read nowhere
max_messages_per_thread == 50

max_rounds == 3
consensus_threshold == 70

\* the check for consensus after a round
AnyRoundReaches(round_messages) ==
    LET level == ConsensusLevel(round_messages)
    IN level.num >= consensus_threshold * level.den

ConsensusReached(round_messages) ==
    /\ Len(round_messages) >= 2
    /\ LET level == ConsensusLevel(round_messages)
       IN level.num >= consensus_threshold * level.den

\* the debate rounds from position `from` of the current round on, up to the
\* next invocation: of a participant, or of the facilitator for the summary
RECURSIVE DebateAdvance(_, _, _, _)
DebateAdvance(fl, debaters, avail, from) ==
    LET j == FirstAvailable(debaters, from, avail)
        logged == [fl EXCEPT !.round_log = Append(@, fl.round_messages)]
    IN IF j # 0 THEN [fl EXCEPT !.pc = "debating", !.i = j]
       ELSE IF ConsensusReached(fl.round_messages)
       THEN [logged EXCEPT !.pc = "summarizing", !.consensus_reached = TRUE]
       ELSE IF fl.round_num + 1 >= max_rounds
       THEN [logged EXCEPT !.pc = "summarizing"]
       ELSE DebateAdvance([logged EXCEPT !.round_num = @ + 1, !.round_messages = <<>>],
                          debaters, avail, 1)

\* _group_chat_debate_conversation up to its first invocation
DebateBegin(t, thread) ==
    LET initial_message ==
            [expert_name |-> Facilitator(thread),
             content |-> [NoContent EXCEPT !.by = Facilitator(thread), !.words = thread.topic],
             confidence |-> 100, role |-> "facilitator"]
    IN /\ flow' = [flow EXCEPT ![t] =
                      DebateAdvance([NoFlow EXCEPT !.discussion_messages = <<initial_message>>],
                                    Debaters(thread), expert_availability, 1)]
       /\ active_threads' = active_threads @@ (t :> thread)
       /\ UNCHANGED <<results, conversation_history>>

\* the roles of _maker_checker_loop_conversation
Maker(thread) ==
    IF thread.participants = <<>> THEN "backend-architect" ELSE thread.participants[1]

Checker(thread) ==
    IF Len(thread.participants) < 2 THEN Maker(thread) ELSE thread.participants[2]

\* _maker_checker_loop_conversation up to the first invocation of the maker
MakerBegin(t, thread) ==
    /\ flow' = [flow EXCEPT ![t] = [NoFlow EXCEPT !.pc = "making", !.iteration_count = 1]]
    /\ active_threads' = active_threads @@ (t :> thread)
    /\ UNCHANGED <<results, conversation_history>>

\* str(e) of the ValueError raised for a pattern without a strategy
Unsupported(pattern) == <<"Unsupported conversation pattern: ", pattern>>

start_conversation(t, pattern, participants, topic) ==
    /\ t \notin DOMAIN active_threads
    /\ \A u \in DOMAIN active_threads : active_threads[u].topic = topic
    /\ LET thread == [topic |-> topic, pattern |-> pattern, participants |-> participants,
                      messages |-> <<>>, status |-> "active"]
       IN CASE pattern = "sequential_chain" ->
                 SeqContinue(t, thread, NoFlow, 1, expert_availability, expert_load)
            [] pattern = "concurrent_processing" ->
                 /\ ConcBegin(t, thread)
                 /\ UNCHANGED <<expert_availability, expert_load>>
            [] pattern = "group_chat_debate" ->
                 /\ DebateBegin(t, thread)
                 /\ UNCHANGED <<expert_availability, expert_load>>
            [] pattern = "maker_checker_loop" ->
                 /\ MakerBegin(t, thread)
                 /\ UNCHANGED <<expert_availability, expert_load>>
            [] OTHER ->
                 /\ Fail(t, thread, Unsupported(pattern), NoFlow)
                 /\ UNCHANGED <<expert_availability, expert_load>>
    /\ UNCHANGED otherVars

\* thread.messages.append(message)
PrependMessage(messages, message) == <<message>> \o messages

AddMessage(messages, message) == Append(messages, message)

\* a finally clause that leaves the marker as it is
ReleaseSkipped(f, expert, value) == f

\* the finally clause of both strategies
Release(f, expert, value) == [f EXCEPT ![expert] = value]

\* the invocation of the chain's current expert returns
sequential_response(t, confidence) ==
    /\ flow[t].pc = "invoking"
    /\ LET fl == flow[t]
           thread == active_threads[t]
           expert == thread.participants[fl.i]
           response == Response(expert, thread.topic, fl.expert_responses, fl.i, confidence)
           message == [expert_name |-> expert, content |-> response.content,
                       confidence |-> response.confidence, role |-> "contributor"]
       IN SeqContinue(t, [thread EXCEPT !.messages = AddMessage(@, message)],
                      [fl EXCEPT !.expert_responses = Append(@, response)],
                      fl.i + 1,
                      Release(expert_availability, expert, TRUE),
                      Release(expert_load, expert, expert_load[expert] - 1))
    /\ UNCHANGED otherVars

\* the invocation of the chain's current expert raises
sequential_failure(t, reason) ==
    /\ flow[t].pc = "invoking"
    /\ LET fl == flow[t]
           thread == active_threads[t]
           expert == thread.participants[fl.i]
       IN /\ expert_availability' = Release(expert_availability, expert, TRUE)
          /\ expert_load' = Release(expert_load, expert, expert_load[expert] - 1)
          /\ Abort(t, thread, reason, [fl EXCEPT !.raised = TRUE])
    /\ UNCHANGED otherVars

\* tasks that mark their worker busy without counting the invocation
RECURSIVE LaunchUncounted(_, _, _, _)
LaunchUncounted(tasks, k, avail, load) ==
    IF k > Len(tasks) THEN [tasks |-> tasks, avail |-> avail, load |-> load]
    ELSE LET expert == tasks[k].expert
         IN IF ~avail[expert]
            THEN LaunchUncounted([tasks EXCEPT ![k] = [@ EXCEPT !.st = "done",
                                                               !.outcome = ErrorDict(expert),
                                                               !.rank = Finished(tasks) + 1]],
                                 k + 1, avail, load)
            ELSE LaunchUncounted([tasks EXCEPT ![k] = [@ EXCEPT !.st = "sleeping"]],
                                 k + 1, [avail EXCEPT ![expert] = FALSE], load)

\* the first step of every task of the gather, in task order:
\* _process_expert_concurrently up to its await
RECURSIVE LaunchTasks(_, _, _, _)
LaunchTasks(tasks, k, avail, load) ==
    IF k > Len(tasks) THEN [tasks |-> tasks, avail |-> avail, load |-> load]
    ELSE LET expert == tasks[k].expert
         IN IF ~avail[expert]
            THEN LaunchTasks([tasks EXCEPT ![k] = [@ EXCEPT !.st = "done",
                                                           !.outcome = ErrorDict(expert),
                                                           !.rank = Finished(tasks) + 1]],
                             k + 1, avail, load)
            ELSE LaunchTasks([tasks EXCEPT ![k] = [@ EXCEPT !.st = "sleeping"]],
                             k + 1,
                             [avail EXCEPT ![expert] = FALSE],
                             [load EXCEPT ![expert] = @ + 1])

concurrent_launch(t) ==
    /\ flow[t].pc = "gathering"
    /\ LET launched == LaunchTasks(flow[t].tasks, 1, expert_availability, expert_load)
       IN /\ flow' = [flow EXCEPT ![t] = [@ EXCEPT !.pc = "running", !.tasks = launched.tasks]]
          /\ expert_availability' = launched.avail
          /\ expert_load' = launched.load
    /\ UNCHANGED <<active_threads, results, conversation_history, otherVars>>

\* one task's invocation returns or raises; its finally clause runs
TaskSettles(t, k, outcome) ==
    /\ flow[t].pc = "running"
    /\ k \in 1..Len(flow[t].tasks)
    /\ flow[t].tasks[k].st = "sleeping"
    /\ LET expert == flow[t].tasks[k].expert
       IN /\ flow' = [flow EXCEPT ![t].tasks[k] =
                         [@ EXCEPT !.st = "done", !.outcome = outcome,
                                   !.rank = Finished(flow[t].tasks) + 1]]
          /\ expert_availability' = Release(expert_availability, expert, TRUE)
          /\ expert_load' = Release(expert_load, expert, expert_load[expert] - 1)
    /\ UNCHANGED <<active_threads, results, conversation_history, otherVars>>

concurrent_response(t, k, confidence) ==
    TaskSettles(t, k, Response(flow[t].tasks[k].expert, active_threads[t].topic,
                                  <<>>, 0, confidence))

concurrent_failure(t, k) ==
    TaskSettles(t, k, Raised(flow[t].tasks[k].expert))

\* isinstance(response, dict)
IsDict(outcome) == outcome.kind \in {"response", "error"}

\* the results in the order in which the tasks finished
RECURSIVE ByRank(_, _)
ByRank(tasks, r) ==
    IF r > Len(tasks) THEN <<>>
    ELSE LET finished == {k \in 1..Len(tasks) : tasks[k].rank = r}
         IN (IF finished = {} THEN <<>>
             ELSE <<tasks[CHOOSE k \in finished : TRUE].outcome>>) \o ByRank(tasks, r + 1)

CompletedResponses(tasks) == SelectSeq(ByRank(tasks, 1), IsDict)

\* what gather returned, in the order of the tasks whatever the order they
\* finished in, filtered as _concurrent_processing_conversation does
ValidResponses(tasks) ==
    SelectSeq([k \in 1..Len(tasks) |-> tasks[k].outcome], IsDict)

\* gather is complete: the rest of _concurrent_processing_conversation
concurrent_join(t) ==
    /\ flow[t].pc = "running"
    /\ \A k \in 1..Len(flow[t].tasks) : flow[t].tasks[k].st = "done"
    /\ LET valid == ValidResponses(flow[t].tasks)
       IN Complete(t, active_threads[t],
                   StrategyResult(t, active_threads[t], SynthesizeConcurrent(valid),
                                  valid, Len(valid)),
                   flow[t])
    /\ UNCHANGED <<expert_availability, expert_load, otherVars>>

\* a participant's invocation returns; the round goes on
debate_response(t, confidence) ==
    /\ flow[t].pc = "debating"
    /\ LET fl == flow[t]
           thread == active_threads[t]
           participant == Debaters(thread)[fl.i]
           response == Response(participant, thread.topic, <<>>, 0, confidence)
           message == [expert_name |-> participant, content |-> response.content,
                       confidence |-> response.confidence, role |-> "contributor"]
       IN flow' = [flow EXCEPT ![t] =
                      DebateAdvance([fl EXCEPT !.discussion_messages = Append(@, message),
                                               !.round_messages = Append(@, response)],
                                    Debaters(thread), expert_availability, fl.i + 1)]
    /\ UNCHANGED <<active_threads, results, conversation_history,
                   expert_availability, expert_load, otherVars>>

\* str(e) of the AttributeError of r.get on a ConversationMessage
NoGet == <<"'ConversationMessage' object has no attribute 'get'">>

\* the facilitator's summary returns and the result is built: the consensus
\* level is asked of the messages (not dicts) of everyone but the facilitator,
\* and _calculate_consensus_level reads r.get unless there are fewer than 2
debate_summary(t, confidence) ==
    /\ flow[t].pc = "summarizing"
    /\ LET fl == flow[t]
           thread == active_threads[t]
           facilitator == Facilitator(thread)
           summary == Response(facilitator, thread.topic, <<>>, 0, confidence)
           others == SelectSeq(fl.discussion_messages,
                               LAMBDA m : m.expert_name # facilitator)
           spoken == [k \in 1..Len(fl.discussion_messages) |->
                         [kind |-> "response",
                          expert |-> fl.discussion_messages[k].expert_name,
                          content |-> fl.discussion_messages[k].content,
                          confidence |-> fl.discussion_messages[k].confidence]]
       IN IF Len(others) < 2
          THEN Complete(t, thread,
                        [StrategyResult(t, thread, <<summary.content>>, spoken,
                                        Len(fl.discussion_messages))
                            EXCEPT !.consensus_level = ConsensusLevel(others)],
                        fl)
          ELSE Fail(t, thread, NoGet, fl)
    /\ UNCHANGED <<expert_availability, expert_load, otherVars>>

\* an invocation of a participant or of the facilitator raises
debate_failure(t, reason) ==
    /\ flow[t].pc \in {"debating", "summarizing"}
    /\ Fail(t, active_threads[t], reason, [flow[t] EXCEPT !.raised = TRUE])
    /\ UNCHANGED <<expert_availability, expert_load, otherVars>>

\* the maker's invocation returns; the checker is invoked
maker_response(t, confidence) ==
    /\ flow[t].pc = "making"
    /\ LET thread == active_threads[t]
       IN flow' = [flow EXCEPT ![t] =
                      [@ EXCEPT !.pc = "checking",
                                !.current_solution =
                                    Response(Maker(thread), thread.topic, <<>>, 0, confidence)]]
    /\ UNCHANGED <<active_threads, results, conversation_history,
                   expert_availability, expert_load, otherVars>>

\* while iteration_count < max_iterations, left by the break on approval
LoopWhileRejected(score, iteration_count) == ~Approved(score)

LoopAgain(score, iteration_count) ==
    ~Approved(score) /\ iteration_count < max_iterations

\* the checker's invocation returns: its text is its template followed by the
\* request, which quotes the solution, and the words of its verdict.  The
\* feedback is recorded and the loop goes round again or ends.
checker_response(t, confidence, verdict) ==
    /\ flow[t].pc = "checking"
    /\ LET fl == flow[t]
           thread == active_threads[t]
           solution == fl.current_solution
           review == Response(Checker(thread), solution.content.words \cup verdict,
                              <<>>, 0, confidence)
           feedback == [iteration |-> fl.iteration_count,
                        maker_response |-> solution,
                        checker_response |-> review,
                        approval_score |-> ApprovalScore(review.content)]
           recorded == [fl EXCEPT !.feedback_history = Append(@, feedback)]
       IN IF LoopAgain(feedback.approval_score, fl.iteration_count)
          THEN /\ flow' = [flow EXCEPT ![t] =
                              [recorded EXCEPT !.pc = "making", !.iteration_count = @ + 1]]
               /\ UNCHANGED <<active_threads, results, conversation_history>>
          ELSE Complete(t, thread,
                        MakerCheckerResult(t, Maker(thread), Checker(thread), recorded),
                        recorded)
    /\ UNCHANGED <<expert_availability, expert_load, otherVars>>

\* an invocation of the maker or of the checker raises
loop_failure(t, reason) ==
    /\ flow[t].pc \in {"making", "checking"}
    /\ Fail(t, active_threads[t], reason, [flow[t] EXCEPT !.raised = TRUE])
    /\ UNCHANGED <<expert_availability, expert_load, otherVars>>

----------------------------------------------------------------------------
(* MetaOrchestrator: worker selection and orchestrate_response *)

\* _load_expert_library, in insertion order.  A capability is kept as its
\* parts, capability.split('_').
expert_library ==
    <<[expert_name |-> "react-expert",
       expert_data |-> [keywords |-> <<"react", "hooks", "components", "jsx",
                                       "useState", "useEffect">>,
                        capabilities |-> << <<"component", "development">>,
                                            <<"state", "management">>,
                                            <<"hooks", "optimization">> >>]],
      [expert_name |-> "vue-expert",
       expert_data |-> [keywords |-> <<"vue", "v-model", "vuex", "vue router">>,
                        capabilities |-> << <<"vue", "components">>,
                                            <<"vuex", "store">>,
                                            <<"vue", "composition">> >>]],
      [expert_name |-> "angular-expert",
       expert_data |-> [keywords |-> <<"angular", "modules", "services", "decorators">>,
                        capabilities |-> << <<"angular", "modules">>,
                                            <<"dependency", "injection">>,
                                            <<"services">> >>]],
      [expert_name |-> "backend-architect",
       expert_data |-> [keywords |-> <<"architecture", "system design",
                                       "microservices", "scalability">>,
                        capabilities |-> << <<"system", "architecture">>,
                                            <<"api", "design">>,
                                            <<"scalability", "planning">> >>]],
      [expert_name |-> "python-expert",
       expert_data |-> [keywords |-> <<"python", "django", "flask", "fastapi">>,
                        capabilities |-> << <<"python", "development">>,
                                            <<"django", "apps">>,
                                            <<"api", "development">> >>]],
      [expert_name |-> "postgres-expert",
       expert_data |-> [keywords |-> <<"postgresql", "psql", "postgres", "sql">>,
                        capabilities |-> << <<"database", "design">>,
                                            <<"query", "optimization">>,
                                            <<"performance", "tuning">> >>]],
      [expert_name |-> "docker-expert",
       expert_data |-> [keywords |-> <<"docker", "containers", "dockerfile">>,
                        capabilities |-> << <<"containerization">>,
                                            <<"docker", "optimization">>,
                                            <<"multi", "stage", "builds">> >>]]>>

\* `text in request_lower` is a substring test on the lower-cased request:
\* the keywords and capability parts that lie inside a longer word of the
\* requests below ("useState" lies in no lower-cased word)
Inside(word) ==
    CASE word = "vuex" -> {"vue"}
      [] word = "postgresql" -> {"postgres", "sql"}
      [] word = "fastapi" -> {"api"}
      [] word = "dockerfile" -> {"docker"}
      [] word = "microservices" -> {"services"}
      [] word = "components" -> {"component"}
      [] OTHER -> {}

Phrase(text) ==
    CASE text = "system design" -> <<"system", "design">>
      [] text = "vue router" -> <<"vue", "router">>
      [] OTHER -> <<text>>

Mentions(req, text) ==
    LET phrase == Phrase(text)
    IN \E i \in 1..Len(req) : \A j \in 1..Len(phrase) :
          /\ i + j - 1 <= Len(req)
          /\ (req[i + j - 1] = phrase[j] \/ phrase[j] \in Inside(req[i + j - 1]))

Elements(seq) == {seq[k] : k \in 1..Len(seq)}

\* seq[:n] and seq[-n:]
Take(seq, n) == SubSeq(seq, 1, Min(n, Len(seq)))
LastOf(seq, n) == SubSeq(seq, Len(seq) - Min(n, Len(seq)) + 1, Len(seq))

\* expert_data.get("name"): None for the entries of the library
DataName(expert_data) ==
    IF "name" \in DOMAIN expert_data THEN expert_data.name ELSE "None"

\* the double computed by (k / n) * 0.4 + (c / 3) * 0.3 against the double
\* nearest to the exact value, in units in the last place: 0.75 * 0.4 is
\* 0.30000000000000004, (1 / 3) * 0.3 is 0.09999999999999999
RoundingExcess(n, k, c) ==
    IF k = 0 /\ c \in {1, 2} THEN -1
    ELSE IF (n = 4 /\ k = 3 /\ c \in {0, 3}) \/ (n = 6 /\ k = 5 /\ c = 0) THEN 1
    ELSE 0

\* _calculate_expert_score.  value is the score in units of 1/600 (0.4 is 240,
\* 0.3 is 180, 0.2 is 120, 0.1 is 60, 1.0 is 600); excess is the rounding of
\* the double that holds it.
ExpertScore(req, expert_data, session_context) ==
    LET n == Len(expert_data.keywords)
        m == Len(expert_data.capabilities)
        keyword_matches ==
            Cardinality({k \in 1..n : Mentions(req, expert_data.keywords[k])})
        capability_matches ==
            Cardinality({k \in 1..m : \E part \in Elements(expert_data.capabilities[k]) :
                                          Mentions(req, part)})
        context_score ==
            IF /\ "preferred_experts" \in DOMAIN session_context
               /\ DataName(expert_data) \in Elements(session_context.preferred_experts)
            THEN 120 ELSE 0
        recent == IF "recent_experts" \in DOMAIN session_context
                  THEN session_context.recent_experts ELSE <<>>
        recent_score ==
            IF DataName(expert_data) \in Elements(LastOf(recent, 3)) THEN 60 ELSE 0
        score == (240 * keyword_matches) \div n + (180 * capability_matches) \div m
                    + context_score + recent_score
    IN [value |-> Min(score, 600),
        excess |-> IF context_score + recent_score = 0 /\ m = 3
                   THEN RoundingExcess(n, keyword_matches, capability_matches) ELSE 0]

\* the performance modifier of select_experts in units of 1/100000, for a
\* record holding response_quality and collaboration_score in hundredths,
\* task_completion_rate in whole percent and switching_efficiency in halves
PerformanceModifier(perf) ==
    3 * perf.response_quality + 300 * perf.task_completion_rate
        + 2 * perf.collaboration_score + 100 * perf.switching_efficiency

Neutral == 100000

\* expert_scores after the modifiers are applied.  A score is now in units of
\* 1/60000000.
AdjustedScores(req, session_context, performance) ==
    [k \in 1..Len(expert_library) |->
        LET expert == expert_library[k].expert_name
            score == ExpertScore(req, expert_library[k].expert_data, session_context)
        IN [expert |-> expert,
            score |-> [score EXCEPT !.value =
                          @ * (IF expert \in DOMAIN performance
                               THEN PerformanceModifier(performance[expert])
                               ELSE Neutral)]]]

Above(a, b) == a.value > b.value \/ (a.value = b.value /\ a.excess > b.excess)

\* threshold = 0.3
Threshold == [value |-> 180 * Neutral, excess |-> 0]

ReachesThreshold(score) == ~Above(Threshold, score)

MeetsThreshold(score) == Above(score, Threshold)

\* sorted(..., reverse=True) is stable: an item goes behind the items that
\* are not below it
InsertBeforeEqual(sorted, item) ==
    LET ahead == Cardinality({k \in 1..Len(sorted) : Above(sorted[k].score, item.score)})
    IN SubSeq(sorted, 1, ahead) \o <<item>> \o SubSeq(sorted, ahead + 1, Len(sorted))

InsertByScore(sorted, item) ==
    LET ahead == Cardinality({k \in 1..Len(sorted) : ~Above(item.score, sorted[k].score)})
    IN SubSeq(sorted, 1, ahead) \o <<item>> \o SubSeq(sorted, ahead + 1, Len(sorted))

RECURSIVE SortedByScore(_)
SortedByScore(items) ==
    IF items = <<>> THEN <<>>
    ELSE InsertByScore(SortedByScore(SubSeq(items, 1, Len(items) - 1)), items[Len(items)])

ExpertsOf(items) == [k \in 1..Len(items) |-> items[k].expert]

\* select_experts
SelectExperts(req, session_context, performance) ==
    Take(ExpertsOf(SelectSeq(SortedByScore(AdjustedScores(req, session_context, performance)),
                             LAMBDA item : MeetsThreshold(item.score))),
         5)

\* a subtask dict; its id is assigned last
Subtask(level, type, expert, dependencies, estimated_time) ==
    [level |-> level, type |-> type, expert |-> expert,
     dependencies |-> dependencies, estimated_time |-> estimated_time]

AssignIds(prefix, subtasks) ==
    [k \in 1..Len(subtasks) |-> [id |-> <<prefix, k>>] @@ subtasks[k]]

\* a builder reads s["id"] of the subtasks it has appended before any id is
\* assigned: that is a KeyError as soon as there is one to read
KeyError == [raised |-> TRUE, error |-> "KeyError: 'id'"]

Built(subtasks) == [raised |-> FALSE, subtasks |-> subtasks]

\* _create_hierarchical_subtasks
HierarchicalSubtasks(experts) ==
    LET named == Elements(experts)
        planning == IF named \cap {"backend-architect", "architect", "pm"} # {}
                    THEN <<Subtask(1, "planning", "backend-architect", <<>>, 20)>>
                    ELSE <<>>
        developers == SelectSeq(experts, LAMBDA e :
                         e \in {"react-expert", "python-expert", "nodejs-expert"})
        development == [k \in 1..Len(developers) |->
                           Subtask(2, "development", developers[k], <<>>, 30)]
        testing == IF named \cap {"jest-expert", "cypress-expert"} # {}
                   THEN <<Subtask(3, "testing", "jest-expert", <<>>, 25)>>
                   ELSE <<>>
    IN IF (planning # <<>> /\ developers # <<>>) \/ (developers # <<>> /\ testing # <<>>)
       THEN KeyError
       ELSE Built(AssignIds("subtask", planning \o development \o testing))

\* _create_concurrent_subtasks: the aggregation task reads the ids of
\* subtasks[:-1], all parallel subtasks but the last
ConcurrentSubtasks(experts) ==
    LET parallel == [k \in 1..Len(experts) |->
                        Subtask(1, "parallel", experts[k], <<>>, 15)]
    IN IF Len(parallel) >= 2 THEN KeyError
       ELSE Built(AssignIds("concurrent",
                  Append(parallel, Subtask(2, "aggregation", "backend-architect", <<>>, 10))))

\* _create_sequential_subtasks
SequentialSubtasks(experts) ==
    LET others == SelectSeq(experts, LAMBDA e : e # "backend-architect")
        expert_order == IF "backend-architect" \in Elements(experts)
                        THEN <<"backend-architect">> \o others ELSE others
    IN Built(AssignIds("sequential",
             [k \in 1..Len(expert_order) |->
                 Subtask(1, "sequential", expert_order[k],
                         [d \in 1..(k - 1) |-> <<"sequential", d>>], 20)]))

\* decompose_task: "Generate subtasks based on pattern"
CreateSubtasks(pattern, experts) ==
    CASE pattern = "hierarchical" -> HierarchicalSubtasks(experts)
      [] pattern = "concurrent" -> ConcurrentSubtasks(experts)
      [] pattern = "sequential" -> SequentialSubtasks(experts)
      [] OTHER -> Built(<<>>)

\* decompose_task
DecomposeTask(req, pattern) ==
    LET score == ComplexityScore(ComplexityIndicators(req))
        matching == SelectSeq(expert_library, LAMBDA item :
                       \E k \in 1..Len(item.expert_data.keywords) :
                           Mentions(req, item.expert_data.keywords[k]))
        required_experts == [k \in 1..Len(matching) |-> matching[k].expert_name]
        built == CreateSubtasks(pattern, required_experts)
    IN IF built.raised THEN built
       ELSE [raised |-> FALSE,
             decomposition |->
                [original_request |-> req, complexity_score |-> score,
                 estimated_duration |-> Len(built.subtasks) * 15,
                 required_experts |-> required_experts,
                 subtasks |-> built.subtasks,
                 orchestration_pattern |-> pattern]]

\* one call of decompose_task from "Generate subtasks based on pattern" on,
\* for the required_experts it has collected
create_subtasks ==
    /\ ~builder_call.done
    /\ builder_call' = [done |-> TRUE, pattern |-> builder_call.pattern,
                        experts |-> builder_call.experts,
                        result |-> CreateSubtasks(builder_call.pattern, builder_call.experts)]
    /\ UNCHANGED <<round_responses, consensus, cxVars, now, cbVars, rlVars, convVars, orVars>>

\* _update_performance_metrics without the min(5.0, ...) on response_quality
RECURSIVE UpdateUncapped(_, _)
UpdateUncapped(performance, experts) ==
    IF experts = <<>> THEN performance
    ELSE LET expert == Head(experts)
         IN UpdateUncapped(
               IF expert \notin DOMAIN performance
               THEN performance @@
                      (expert :> [response_quality |-> 450, task_completion_rate |-> 95,
                                  collaboration_score |-> 460,
                                  switching_efficiency |-> 180, total_tasks |-> 1])
               ELSE [performance EXCEPT ![expert] =
                        [@ EXCEPT !.total_tasks = @ + 1,
                                  !.response_quality = @ + 1,
                                  !.switching_efficiency = Min(200, @ + 1)]],
               Tail(experts))

\* _update_performance_metrics: response_quality in units of 0.01,
\* switching_efficiency in units of 0.5
RECURSIVE UpdatePerformance(_, _)
UpdatePerformance(performance, experts) ==
    IF experts = <<>> THEN performance
    ELSE LET expert == Head(experts)
         IN UpdatePerformance(
               IF expert \notin DOMAIN performance
               THEN performance @@
                      (expert :> [response_quality |-> 450, task_completion_rate |-> 95,
                                  collaboration_score |-> 460,
                                  switching_efficiency |-> 180, total_tasks |-> 1])
               ELSE [performance EXCEPT ![expert] =
                        [@ EXCEPT !.total_tasks = @ + 1,
                                  !.response_quality = Min(500, @ + 1),
                                  !.switching_efficiency = Min(200, @ + 1)]],
               Tail(experts))

NoReply == [done |-> FALSE]
NoSelection == [done |-> FALSE]

orIdle ==
    /\ active_sessions = <<>> /\ task_queue = <<>> /\ expert_performance = <<>>
    /\ reply = NoReply /\ selection = NoSelection /\ submitted = <<>>
    /\ times_selected = <<>>

\* expertise_cache of the session, or {} for an unknown session id
SessionContext(session_id) ==
    IF session_id \in DOMAIN active_sessions
    THEN active_sessions[session_id].expertise_cache ELSE <<>>

\* a call of select_experts
select_experts(req, session_id) ==
    /\ selection' = [done |-> TRUE, request |-> req, session_id |-> session_id,
                     scores |-> AdjustedScores(req, SessionContext(session_id),
                                               expert_performance),
                     selected |-> SelectExperts(req, SessionContext(session_id),
                                                expert_performance)]
    /\ UNCHANGED <<active_sessions, task_queue, expert_performance, reply, submitted,
                   times_selected,
                   cxVars, now, cbVars, rlVars, convVars, fnVars>>

\* a new session that counts an interaction before it had one
CountedSession == [interaction_count |-> 1, expertise_cache |-> <<>>, last_interaction |-> 0]

\* ExpertMemory(session_id, ...) of a session seen for the first time
NewSession == [interaction_count |-> 0, expertise_cache |-> <<>>, last_interaction |-> 0]

\* orchestrate_response from the analysis on, as the orchestrator's fields and
\* the reply after the call: the second "Decompose task if complex" block
\* repeats the first, so the decomposition is queued twice
Respond(req, session_id, sessions, queue, performance, complexity_score, pattern, decomposed, selected_experts) ==
    LET complex == complexity_score > Sequential4
        primary == IF selected_experts # <<>> THEN selected_experts[1] ELSE "frontend-design"
        cache == sessions[session_id].expertise_cache
        recent == IF "recent_experts" \in DOMAIN cache THEN cache.recent_experts ELSE <<>>
    IN IF complex /\ decomposed.raised
       THEN [active_sessions |-> sessions,
             task_queue |-> queue,
             expert_performance |-> performance,
             reply |-> [done |-> TRUE, raised |-> TRUE, request |-> req,
                        session_id |-> session_id, error |-> decomposed.error]]
       ELSE [task_queue |-> IF complex
                            THEN queue \o <<decomposed.decomposition,
                                            decomposed.decomposition>>
                            ELSE queue,
             expert_performance |-> UpdatePerformance(performance, selected_experts),
             active_sessions |->
                  [sessions EXCEPT ![session_id].expertise_cache =
                      [last_expert |-> primary,
                       recent_experts |-> LastOf(recent \o Take(selected_experts, 2), 5)]],
             reply |-> [done |-> TRUE, raised |-> FALSE, request |-> req,
                        response |-> primary,
                        selected_experts |-> selected_experts,
                        complexity_score |-> complexity_score,
                        orchestration_pattern |-> pattern,
                        session_id |-> session_id,
                        task_decomposition |->
                            IF complex THEN <<decomposed.decomposition>> ELSE <<>>]]

\* orchestrate_response from the session update on
Orchestrate(req, session_id, sessions, queue, performance, complexity_score, decomposed) ==
    Respond(req, session_id, sessions, queue, performance, complexity_score,
            SelectPattern(complexity_score), decomposed,
            IF complexity_score > Sequential4
            THEN (IF decomposed.raised THEN <<>> ELSE decomposed.decomposition.required_experts)
            ELSE SelectExperts(req, sessions[session_id].expertise_cache, performance))

\* the orchestrator after orchestrate_response(req, session_id) at time t.  A
\* caller without a session id gets a new uuid: that is a session_id not yet
\* in active_sessions.
Served(req, session_id, orchestrator, t) ==
    Orchestrate(req, session_id,
                [(IF session_id \in DOMAIN orchestrator.active_sessions
                  THEN orchestrator.active_sessions
                  ELSE orchestrator.active_sessions @@ (session_id :> NewSession))
                    EXCEPT ![session_id].interaction_count = @ + 1,
                           ![session_id].last_interaction = t],
                orchestrator.task_queue, orchestrator.expert_performance,
                ComplexityScore(ComplexityIndicators(req)),
                DecomposeTask(req, SelectPattern(ComplexityScore(ComplexityIndicators(req)))))

\* the fields of the orchestrator and the reply take their values after a call
Becomes(after) ==
    /\ active_sessions' = after.active_sessions
    /\ task_queue' = after.task_queue
    /\ expert_performance' = after.expert_performance
    /\ reply' = after.reply

\* one more request counted for each of the experts
Counted(counts, experts) ==
    [e \in DOMAIN counts \cup experts |->
        (IF e \in DOMAIN counts THEN counts[e] ELSE 0) + (IF e \in experts THEN 1 ELSE 0)]

orchestrate_response(req, session_id) ==
    /\ session_id \in DOMAIN active_sessions
          => active_sessions[session_id].interaction_count < MaxCalls
    /\ Becomes(Served(req, session_id,
                      [active_sessions |-> active_sessions, task_queue |-> task_queue,
                       expert_performance |-> expert_performance],
                      now))
    /\ submitted' = IF session_id \in DOMAIN submitted
                    THEN [submitted EXCEPT ![session_id] = @ + 1]
                    ELSE submitted @@ (session_id :> 1)
    /\ times_selected' = IF reply'.raised THEN times_selected
                         ELSE Counted(times_selected, Elements(reply'.selected_experts))
    /\ UNCHANGED <<selection, cxVars, now, cbVars, rlVars, convVars, fnVars>>

----------------------------------------------------------------------------
(* Specifications *)

InitComplexity ==
    /\ request \in UNION {[1..n -> Vocabulary] : n \in 0..MaxWords}
    /\ analysis = NoAnalysis
    /\ now = 0 /\ cbIdle /\ rlIdle /\ convIdle /\ orIdle /\ fnIdle

NextComplexity == analyze_complexity

SpecComplexity == InitComplexity /\ [][NextComplexity]_vars

InitBreaker == cxIdle /\ now = 0 /\ cbIdle /\ rlIdle /\ convIdle /\ orIdle /\ fnIdle

NextBreaker ==
    \/ Tick(BreakerClock)
    \/ \E e \in BreakerExperts : check_circuit_breaker(e)
    \/ \E e \in BreakerExperts : record_failure(e)
    \/ \E e \in BreakerExperts : call_succeeded(e)

SpecBreaker == InitBreaker /\ [][NextBreaker]_vars

InitRate == cxIdle /\ now = 0 /\ cbIdle /\ rlIdle /\ convIdle /\ orIdle /\ fnIdle

NextRate ==
    \/ Tick(RateClock)
    \/ \E c \in Clients : check_rate_limit(c)

SpecRate == InitRate /\ [][NextRate]_vars

InitConversation == cxIdle /\ now = 0 /\ cbIdle /\ rlIdle /\ convIdle /\ orIdle /\ fnIdle

NextConversation ==
    \/ \E t \in Threads, pattern \in ExecutedPatterns,
          participants \in ParticipantLists, topic \in Topics :
            start_conversation(t, pattern, participants, topic)
    \/ \E t \in Threads, confidence \in Confidences : sequential_response(t, confidence)
    \/ \E t \in Threads, reason \in Reasons : sequential_failure(t, reason)
    \/ \E t \in Threads : concurrent_launch(t)
    \/ \E t \in Threads : \E k \in 1..Len(flow[t].tasks), confidence \in Confidences :
            concurrent_response(t, k, confidence)
    \/ \E t \in Threads : \E k \in 1..Len(flow[t].tasks) : concurrent_failure(t, k)
    \/ \E t \in Threads : concurrent_join(t)

SpecConversation == InitConversation /\ [][NextConversation]_vars

\* one Concurrent Fan-out session over a longer participant list
FanoutLists == UNION {[1..n -> ConvExperts] : n \in 0..MaxFanout}

InitFanout == cxIdle /\ now = 0 /\ cbIdle /\ rlIdle /\ convIdle /\ orIdle /\ fnIdle

NextFanout ==
    \/ \E participants \in FanoutLists, topic \in Topics :
            start_conversation("t1", "concurrent_processing", participants, topic)
    \/ concurrent_launch("t1")
    \/ \E k \in 1..Len(flow["t1"].tasks), confidence \in Confidences :
            concurrent_response("t1", k, confidence)
    \/ \E k \in 1..Len(flow["t1"].tasks) : concurrent_failure("t1", k)
    \/ concurrent_join("t1")

SpecFanout == InitFanout /\ [][NextFanout]_vars

\* _calculate_consensus_level on every list of up to MaxResponses responses:
\* dicts with a confidence between 0.0 and 1.0, or without one
ResponseDicts ==
    {[NoOutcome EXCEPT !.kind = "response", !.confidence = c] : c \in {0, 70, 100}}
        \cup {ErrorDict("none")}

InitConsensus ==
    /\ round_responses \in UNION {[1..n -> ResponseDicts] : n \in 0..MaxResponses}
    /\ consensus = NoConsensus /\ builder_call = NoBuilt
    /\ cxIdle /\ now = 0 /\ cbIdle /\ rlIdle /\ convIdle /\ orIdle

NextConsensus == calculate_consensus_level

SpecConsensus == InitConsensus /\ [][NextConsensus]_vars

\* required_experts is collected in the order of expert_library: the seven
\* experts of the library and, behind them, one made by create_custom_expert
Registry ==
    [k \in 1..Len(expert_library) |-> expert_library[k].expert_name] \o <<"custom_1">>

RequiredLists ==
    {SelectSeq(Registry, LAMBDA e : e \in chosen) :
        chosen \in {c \in SUBSET Elements(Registry) : Cardinality(c) <= MaxRequired}}

DecomposingPatterns == {"hierarchical", "concurrent", "sequential"}

InitDecompose ==
    /\ builder_call \in [done : {FALSE}, pattern : DecomposingPatterns, experts : RequiredLists]
    /\ round_responses = <<>> /\ consensus = NoConsensus
    /\ cxIdle /\ now = 0 /\ cbIdle /\ rlIdle /\ convIdle /\ orIdle

NextDecompose == create_subtasks

SpecDecompose == InitDecompose /\ [][NextDecompose]_vars

\* requests to the orchestrator, as lower-cased words
Dashboard ==
    <<"build", "a", "react", "dashboard", "with", "a", "python", "backend", "a",
      "postgres", "database", "and", "deploy", "via", "docker">>

OrchestratorRequests ==
    {Dashboard,
     <<"hello", "world">>,
     <<"postgresql">>,
     <<"vue">>,
     <<"vuex", "angular", "modules", "services">>,
     <<"hooks", "components", "jsx", "vuex", "angular", "modules", "architecture",
       "microservices", "scalability", "django", "flask", "fastapi", "postgresql",
       "containers", "dockerfile">>}

Sessions == {"s1"}

InitOrchestrator == cxIdle /\ now = 0 /\ cbIdle /\ rlIdle /\ convIdle /\ orIdle /\ fnIdle

NextOrchestrator ==
    \/ \E req \in OrchestratorRequests, session_id \in Sessions :
            orchestrate_response(req, session_id)
    \/ \E req \in OrchestratorRequests, session_id \in Sessions :
            select_experts(req, session_id)

SpecOrchestrator == InitOrchestrator /\ [][NextOrchestrator]_vars

\* one client: it asks the rate limiter and submits requests, in any order
Greeting == <<"hello", "world">>

NextGateway ==
    \/ check_rate_limit("heavy")
    \/ \E session_id \in Sessions : orchestrate_response(Greeting, session_id)

SpecGateway == InitOrchestrator /\ [][NextGateway]_vars

\* requests of two sessions: no match at all, a score of exactly 1.0, a score
\* of 1.25 that one worker serves, a score of 1.25 with keywords of six
\* workers, and the dashboard request
ExactlyOne == <<"build", "react", "api", "system">>
Chain == <<"build", "create", "react", "api", "system">>
SixDomains == <<"build", "create", "react", "vue", "angular", "python", "sql", "docker">>

LedgerRequests == {Greeting, ExactlyOne, Chain, SixDomains, Dashboard}
SessionIds == {"s1", "s2"}

NextLedger ==
    \E req \in LedgerRequests, session_id \in SessionIds :
        orchestrate_response(req, session_id)

SpecLedger == InitOrchestrator /\ [][NextLedger]_vars

\* an orchestrator that has served a session "s0" the same decomposed request
\* some number of times before two more sessions send theirs: 19 and 50
\* earlier requests bring the worker's switching efficiency and response
\* quality to their caps
PriorRequest == Chain
PriorCalls == {0, 19, 50}

\* the orchestrator after n more of the earlier requests, the first half of
\* them and then the rest
RECURSIVE ServedTimes(_, _)
ServedTimes(before, n) ==
    IF n = 0 \/ DOMAIN before = {} THEN before
    ELSE IF n = 1 THEN Served(PriorRequest, "s0", before, 0)
    ELSE ServedTimes(ServedTimes(before, n \div 2), n - (n \div 2))

Repeated(n) ==
    ServedTimes([active_sessions |-> <<>>, task_queue |-> <<>>,
                 expert_performance |-> <<>>, reply |-> NoReply], n)

StartsFrom(before, n) ==
    /\ active_sessions = before.active_sessions
    /\ task_queue = before.task_queue
    /\ expert_performance = before.expert_performance
    /\ reply = before.reply
    /\ submitted = IF n = 0 THEN <<>> ELSE "s0" :> n
    /\ times_selected = IF n = 0 THEN <<>> ELSE "react-expert" :> n
    /\ selection = NoSelection

InitPerformance ==
    /\ \E n \in PriorCalls : StartsFrom(Repeated(n), n)
    /\ cxIdle /\ now = 0 /\ cbIdle /\ rlIdle /\ convIdle /\ fnIdle

PerformanceRequests == {Greeting, <<"postgresql">>, Chain, Dashboard}

NextPerformance ==
    \E req \in PerformanceRequests, session_id \in SessionIds :
        orchestrate_response(req, session_id)

SpecPerformance == InitPerformance /\ [][NextPerformance]_vars

\* one Group Debate session
\* the facilitator and up to MaxDebate - 1 participants, taking turns
DebateLists ==
    {[k \in 1..n |-> IF k % 2 = 1 THEN "react-expert" ELSE "python-expert"] :
        n \in 0..MaxDebate}
DebateConfidences == {70, 90}

NextDebate ==
    \/ \E participants \in DebateLists, topic \in Topics :
            start_conversation("t1", "group_chat_debate", participants, topic)
    \/ \E confidence \in DebateConfidences : debate_response("t1", confidence)
    \/ \E confidence \in DebateConfidences : debate_summary("t1", confidence)
    \/ \E reason \in Reasons : debate_failure("t1", reason)

SpecDebate == InitConversation /\ [][NextDebate]_vars

\* one Maker-Checker Loop session
LoopTopics == {{}, {"fix"}}
Verdicts == {{}, {"approved"}, {"incomplete"}}

NextMakerChecker ==
    \/ \E participants \in ParticipantLists, topic \in LoopTopics :
            start_conversation("t1", "maker_checker_loop", participants, topic)
    \/ \E confidence \in Confidences : maker_response("t1", confidence)
    \/ \E confidence \in Confidences, verdict \in Verdicts :
            checker_response("t1", confidence, verdict)
    \/ \E reason \in Reasons : loop_failure("t1", reason)

SpecMakerChecker == InitConversation /\ [][NextMakerChecker]_vars

\* two sessions of any pattern, the patterns without a strategy among them
ConversationPatterns ==
    {"sequential_chain", "concurrent_processing", "group_chat_debate",
     "maker_checker_loop", "handoff_routing", "hierarchical_coordination"}

SessionLists == {<<>>, <<"react-expert">>, <<"react-expert", "python-expert">>}

NextSessions ==
    \/ \E t \in Threads, pattern \in ConversationPatterns, participants \in SessionLists :
            start_conversation(t, pattern, participants, {})
    \/ \E t \in Threads : sequential_response(t, DefaultConfidence)
    \/ \E t \in Threads : sequential_failure(t, <<>>)
    \/ \E t \in Threads : concurrent_launch(t)
    \/ \E t \in Threads : \E k \in 1..Len(flow[t].tasks) :
            concurrent_response(t, k, DefaultConfidence)
    \/ \E t \in Threads : \E k \in 1..Len(flow[t].tasks) : concurrent_failure(t, k)
    \/ \E t \in Threads : concurrent_join(t)
    \/ \E t \in Threads : debate_response(t, DefaultConfidence)
    \/ \E t \in Threads : debate_summary(t, DefaultConfidence)
    \/ \E t \in Threads : debate_failure(t, <<>>)
    \/ \E t \in Threads : maker_response(t, DefaultConfidence)
    \/ \E t \in Threads, verdict \in Verdicts : checker_response(t, DefaultConfidence, verdict)
    \/ \E t \in Threads : loop_failure(t, <<>>)

SpecSessions == InitConversation /\ [][NextSessions]_vars

\* one session of a worker-marking pattern, next to the circuit breakers of
\* its workers
NextGuarded ==
    \/ \E e \in BreakerExperts : record_failure(e)
    \/ \E e \in BreakerExperts : check_circuit_breaker(e)
    \/ \E pattern \in ExecutedPatterns, participants \in SessionLists :
            start_conversation("t1", pattern, participants, {})
    \/ sequential_response("t1", DefaultConfidence)
    \/ sequential_failure("t1", <<>>)
    \/ concurrent_launch("t1")
    \/ \E k \in 1..Len(flow["t1"].tasks) : concurrent_response("t1", k, DefaultConfidence)
    \/ \E k \in 1..Len(flow["t1"].tasks) : concurrent_failure("t1", k)
    \/ concurrent_join("t1")

SpecGuarded == InitConversation /\ [][NextGuarded]_vars

\* one long session: as many participants as the message cap, or one more,
\* taking turns
LongLists ==
    {[k \in 1..n |-> IF k % 2 = 1 THEN "react-expert" ELSE "python-expert"] :
        n \in {max_messages_per_thread, max_messages_per_thread + 1}}

NextLong ==
    \/ \E pattern \in {"sequential_chain", "group_chat_debate"}, participants \in LongLists :
            start_conversation("t1", pattern, participants, {})
    \/ sequential_response("t1", DefaultConfidence)
    \/ sequential_failure("t1", <<>>)
    \/ debate_response("t1", DefaultConfidence)
    \/ debate_summary("t1", DefaultConfidence)
    \/ debate_failure("t1", <<>>)

SpecLong == InitConversation /\ [][NextLong]_vars

----------------------------------------------------------------------------
(* Claims: complexity classification *)

SumOfCounters(ind) ==
    ind.multi_domain + ind.technical_terms + ind.action_verbs + ind.scope_indicators

\* C1: analyze_complexity returns hierarchical exactly when score >= 3.0,
\* concurrent exactly when 2.0 <= score < 3.0, sequential exactly when
\* 1.0 <= score < 2.0 and handoff exactly when score < 1.0, the score being
\* the sum of the four match counters divided by 4 (12, 8, 4 in quarter units).
C1_PatternBoundaries ==
    analysis.done =>
        /\ analysis.score = SumOfCounters(analysis.indicators)
        /\ (analysis.pattern = "hierarchical") <=> (analysis.score >= 12)
        /\ (analysis.pattern = "concurrent") <=> (8 <= analysis.score /\ analysis.score < 12)
        /\ (analysis.pattern = "sequential") <=> (4 <= analysis.score /\ analysis.score < 8)
        /\ (analysis.pattern = "handoff") <=> (analysis.score < 4)

\* C1 witness: a request scoring exactly 3.0 has been classified hierarchical.
C1_Witness ==
    analysis.done /\ analysis.score = 12 /\ analysis.pattern = "hierarchical"

----------------------------------------------------------------------------
(* Claims: circuit breaker *)

\* C3: a breaker trips closed -> open on exactly the 3rd consecutive failure:
\* it is closed while fewer than 3 failures were recorded since the last
\* successful call, no longer closed once 3 were, and failures separated by a
\* successful call do not add up to a trip.
C3_TripsOnThirdConsecutive ==
    /\ [](\A e \in BreakerExperts : consecutive[e] >= 3 => BreakerState(e) # "closed")
    /\ [][\A e \in BreakerExperts :
            (BreakerState(e) = "closed" /\ BreakerState(e)' = "open")
                => consecutive'[e] = 3]_vars

\* C4: a check made less than 60 seconds after the last recorded failure of an
\* open breaker neither permits the call nor makes the breaker half_open.
C4_NoRetryBeforeCooldown ==
    (last_check.was_open /\ last_check.elapsed < 60)
        => (~last_check.permitted /\ last_check.state = "open")

\* C4 witness: an open breaker was checked 59 seconds after its last failure
\* and refused the call.
C4_Witness ==
    last_check.was_open /\ last_check.elapsed = 59 /\ ~last_check.permitted

\* C5: a check of an open breaker made 60 seconds or more after the last
\* recorded failure (exactly 60, or more than a day) makes it half_open and
\* permits the call.
C5_RetryAfterCooldown ==
    (last_check.was_open /\ last_check.elapsed >= 60)
        => (last_check.permitted /\ last_check.state = "half_open")

----------------------------------------------------------------------------
(* Claims: rate limiter *)

\* C6: check_rate_limit accepts a request exactly when fewer than 100 requests
\* of that client were accepted in the preceding 60 seconds, and no request
\* time that is 60 seconds old or older survives a check.
C6_RollingWindow ==
    last_limit.client # "none" =>
        /\ last_limit.accepted <=> (last_limit.recent < 100)
        /\ last_limit.stale = 0

----------------------------------------------------------------------------
(* Claims: Sequential Chain *)

SequentialThreads ==
    {t \in DOMAIN active_threads : active_threads[t].pattern = "sequential_chain"}

ConcurrentThreads ==
    {t \in DOMAIN active_threads : active_threads[t].pattern = "concurrent_processing"}

MsgExperts(t) ==
    [k \in 1..Len(active_threads[t].messages) |-> active_threads[t].messages[k].expert_name]

\* the participants at the positions of `keep`, in list order
RECURSIVE AtPositions(_, _, _)
AtPositions(participants, keep, k) ==
    IF k > Len(participants) THEN <<>>
    ELSE (IF k \in keep THEN <<participants[k]>> ELSE <<>>)
         \o AtPositions(participants, keep, k + 1)

IsPrefix(a, b) == Len(a) <= Len(b) /\ SubSeq(b, 1, Len(a)) = a

\* C7 as stated: the messages of a Sequential Chain follow the participant
\* list, one message per participant; participants are missing only from a
\* session that failed, also while another session uses a participant.
C7_EveryParticipantOnce ==
    \A t \in SequentialThreads :
        /\ IsPrefix(MsgExperts(t), active_threads[t].participants)
        /\ (results[t].returned /\ results[t].success)
              => MsgExperts(t) = active_threads[t].participants

\* C7 amended: the messages follow the participant list, one message per
\* participant that was invoked and returned; a participant is missing only
\* if the session failed at or before it, or if it was unavailable (busy in
\* another session) when its turn came: then it is passed over and the
\* session goes on and can still succeed.
C7_OrderedUnlessUnavailable ==
    \A t \in SequentialThreads :
        LET thread == active_threads[t]
            upto == IF results[t].returned /\ results[t].success
                    THEN Len(thread.participants) ELSE flow[t].i - 1
        IN MsgExperts(t) =
              AtPositions(thread.participants, (1..upto) \ flow[t].skipped, 1)

\* C7 witness: a chain of two succeeded with one message, its other
\* participant having been busy in the other session.
C7_Witness ==
    \E t \in SequentialThreads :
        /\ results[t].returned /\ results[t].success
        /\ Len(active_threads[t].participants) = 2
        /\ Cardinality(flow[t].skipped) = 1
        /\ Len(active_threads[t].messages) = 1

\* C8: once an invocation of a Sequential Chain has raised, no later
\* participant is invoked, the thread is failed, and start_conversation has
\* returned success = false with a non-empty final_response.
C8_FailureAbortsChain ==
    \A t \in SequentialThreads :
        flow[t].raised =>
            /\ flow[t].pc = "returned"
            /\ Len(active_threads[t].messages) < flow[t].i
            /\ active_threads[t].status = "failed"
            /\ results[t].returned /\ ~results[t].success
            /\ Len(results[t].final_response) > 0

\* C8 witness: the first of two participants raised, with an empty str(e),
\* and the session has returned.
C8_Witness ==
    \E t \in SequentialThreads :
        /\ flow[t].raised /\ flow[t].i = 1
        /\ Len(active_threads[t].participants) = 2
        /\ results[t].returned
        /\ Len(results[t].final_response) = 1

----------------------------------------------------------------------------
(* Claims: Concurrent Fan-out *)

IsPermutation(a, b) ==
    /\ Len(a) = Len(b)
    /\ \A e \in ConvExperts :
          Cardinality({i \in 1..Len(a) : a[i] = e}) = Cardinality({i \in 1..Len(b) : b[i] = e})

\* the invocations of a worker had the same outcomes in both sessions
SameOutputs(t, u) ==
    \A i \in 1..Len(flow[t].tasks), j \in 1..Len(flow[u].tasks) :
        flow[t].tasks[i].expert = flow[u].tasks[j].expert
            => flow[t].tasks[i].outcome = flow[u].tasks[j].outcome

\* C9: two Concurrent Fan-out runs over permutations of one participant list,
\* with the same per-worker outputs, return the same final response,
\* contribution map, message count and consensus level.
C9_PermutationInvariant ==
    \A t \in ConcurrentThreads, u \in ConcurrentThreads :
        ( /\ results[t].returned /\ results[u].returned
          /\ active_threads[t].topic = active_threads[u].topic
          /\ IsPermutation(active_threads[t].participants, active_threads[u].participants)
          /\ Len(flow[t].tasks) = Len(flow[u].tasks)
          /\ SameOutputs(t, u) )
        => /\ results[t].final_response = results[u].final_response
           /\ results[t].expert_contributions = results[u].expert_contributions
           /\ results[t].message_count = results[u].message_count
           /\ results[t].consensus_level = results[u].consensus_level

ContributionParts(final) == SelectSeq(final, LAMBDA p : p.part = "contribution")

\* C10: in a finished Concurrent Fan-out with a raising invocation, no raising
\* invocation is aggregated, the output of every worker that returned is kept
\* in the final response, the message count and the contribution map, and
\* the result is a success if a worker returned.
C10_PartialLoss ==
    \A t \in ConcurrentThreads :
        LET tasks == flow[t].tasks
            settled == {k \in 1..Len(tasks) : tasks[k].outcome.kind = "response"}
            raised == {k \in 1..Len(tasks) : tasks[k].outcome.kind = "raised"}
            r == results[t]
        IN (r.returned /\ raised # {}) =>
             /\ r.message_count = Len(tasks) - Cardinality(raised)
             /\ Len(ContributionParts(r.final_response)) = Len(tasks) - Cardinality(raised)
             /\ \A k \in settled :
                   /\ \E i \in 1..Len(r.final_response) :
                         r.final_response[i] =
                            [part |-> "contribution", expert |-> tasks[k].expert,
                             content |-> tasks[k].outcome.content]
                   /\ tasks[k].expert \in DOMAIN r.expert_contributions
                   /\ r.expert_contributions[tasks[k].expert] = tasks[k].outcome
             /\ \A e \in DOMAIN r.expert_contributions :
                   r.expert_contributions[e].kind # "raised"
             /\ settled # {} => r.success

----------------------------------------------------------------------------
(* Claims: Maker-Checker Loop *)

LoopThreads ==
    {t \in DOMAIN active_threads : active_threads[t].pattern = "maker_checker_loop"}

\* C11: a Maker-Checker Loop makes at most 3 iterations, each one maker call
\* followed by one checker call; it has returned once the 3rd review is in or
\* a review approves, and the approval score it reports (consensus level and
\* final_approval_score) is the one computed from the last review.
C11_LoopBounded ==
    \A t \in LoopThreads :
        LET fl == flow[t]
            reviews == Len(fl.feedback_history)
        IN /\ fl.iteration_count \in 1..3
           /\ \A k \in 1..reviews :
                 /\ fl.feedback_history[k].iteration = k
                 /\ fl.feedback_history[k].approval_score =
                       ApprovalScore(fl.feedback_history[k].checker_response.content)
           /\ fl.pc = "making" => reviews = fl.iteration_count - 1
           /\ fl.pc = "checking" => reviews = fl.iteration_count - 1
           /\ (reviews = 3 \/ (reviews > 0 /\ Approved(fl.feedback_history[reviews].approval_score)))
                 => fl.pc = "returned"
           /\ (results[t].returned /\ results[t].success) =>
                 /\ reviews = fl.iteration_count
                 /\ results[t].message_count = 2 * reviews
                 /\ results[t].quality_metrics.iterations_required = reviews
                 /\ results[t].consensus_level = fl.feedback_history[reviews].approval_score
                 /\ results[t].quality_metrics.final_approval_score =
                       fl.feedback_history[reviews].approval_score

\* C11 witness: a loop returned after 3 iterations whose reviews scored
\* differently, the last one short of approval.
C11_Witness ==
    \E t \in LoopThreads :
        /\ results[t].returned /\ results[t].success
        /\ flow[t].iteration_count = 3
        /\ flow[t].feedback_history[1].approval_score # flow[t].feedback_history[3].approval_score
        /\ ~Approved(results[t].consensus_level)

----------------------------------------------------------------------------
(* Claims: consensus level *)

\* C12: for responses with confidences in [0, 1] the consensus level lies in
\* [0, 1]; it is exactly 1.0 for 0 or 1 responses, and for n >= 2 responses
\* it is the average confidence times min(n / 5, 1).
C12_ConsensusLevel ==
    consensus.done =>
        LET n == Len(round_responses)
            level == consensus.level
        IN /\ level.den > 0
           /\ 0 <= level.num /\ level.num <= 100 * level.den
           /\ n < 2 => level.num = 100 * level.den
           /\ (2 <= n /\ n < 5) =>
                 level.num * 5 * n = SumConfidence(round_responses) * n * level.den
           /\ n >= 5 => level.num * n = SumConfidence(round_responses) * level.den

\* C12 witness: two responses of confidence 1.0 and 0.7 gave the level 0.34.
C12_Witness ==
    /\ consensus.done
    /\ Len(round_responses) = 2
    /\ round_responses[1].confidence = 100 /\ round_responses[2].confidence = 70
    /\ consensus.level.num * 100 = 34 * 100 * consensus.level.den

----------------------------------------------------------------------------
(* Claims: worker selection *)

\* the adjusted score select_experts computed for a worker of the library
AdjustedOf(expert) ==
    LET k == CHOOSE i \in 1..Len(selection.scores) : selection.scores[i].expert = expert
    IN selection.scores[k].score

\* the place of a worker in the library
Registered(expert) ==
    CHOOSE i \in 1..Len(expert_library) : expert_library[i].expert_name = expert

\* C13: for every request, session context and set of performance records,
\* select_experts returns at most 5 workers, and the performance-adjusted
\* score of every returned worker is strictly greater than 0.30.
C13_AtMostFiveAboveThreshold ==
    selection.done =>
        /\ Len(selection.selected) <= 5
        /\ \A k \in 1..Len(selection.selected) :
              Above(AdjustedOf(selection.selected[k]), Threshold)

\* C13 witness: more than 5 workers scored above 0.30, one of them through
\* its performance record, and 5 were returned.
C13_Witness ==
    /\ selection.done
    /\ Len(selection.selected) = 5
    /\ Cardinality({k \in 1..Len(selection.scores) :
                      Above(selection.scores[k].score, Threshold)}) > 5
    /\ \E e \in DOMAIN expert_performance :
          /\ e \in Elements(selection.selected)
          /\ PerformanceModifier(expert_performance[e]) # Neutral

\* C14: select_experts returns the workers in non-increasing order of adjusted
\* score, and two returned workers of equal adjusted score appear in the
\* order in which the registry holds them.
C14_OrderedStableTies ==
    selection.done =>
        \A i, j \in 1..Len(selection.selected) :
            i < j =>
                LET first == selection.selected[i]
                    second == selection.selected[j]
                IN /\ ~Above(AdjustedOf(second), AdjustedOf(first))
                   /\ AdjustedOf(first) = AdjustedOf(second)
                         => Registered(first) < Registered(second)

\* C14 witness: vue-expert and angular-expert were returned with the same
\* adjusted score, and a worker with a higher score was returned ahead of a
\* worker registered before it.
C14_Witness ==
    /\ selection.done
    /\ \E i, j \in 1..Len(selection.selected) :
          /\ i < j
          /\ AdjustedOf(selection.selected[i]) = AdjustedOf(selection.selected[j])
    /\ \E i, j \in 1..Len(selection.selected) :
          /\ i < j
          /\ Above(AdjustedOf(selection.selected[i]), AdjustedOf(selection.selected[j]))
          /\ Registered(selection.selected[i]) > Registered(selection.selected[j])

----------------------------------------------------------------------------
(* Claims: orchestrate_response *)

\* C15: for the dashboard request orchestrate_response completes and reports
\* a complexity score of at least 3.0, the hierarchical pattern, and selected
\* workers that include the react, python, postgres and docker workers.
C15_DashboardHierarchical ==
    (reply.done /\ reply.request = Dashboard) =>
        /\ ~reply.raised
        /\ reply.complexity_score >= Hierarchical4
        /\ reply.orchestration_pattern = "hierarchical"
        /\ {"react-expert", "python-expert", "postgres-expert", "docker-expert"}
              \subseteq Elements(reply.selected_experts)

\* C16: for a request with zero matches in all four counters
\* orchestrate_response reports complexity score 0, the handoff pattern,
\* exactly one selected worker and no task graph.
C16_ZeroMatchSingleWorker ==
    (reply.done /\ SumOfCounters(ComplexityIndicators(reply.request)) = 0) =>
        /\ ~reply.raised
        /\ reply.complexity_score = 0
        /\ reply.orchestration_pattern = "handoff"
        /\ Len(reply.selected_experts) = 1
        /\ reply.task_decomposition = <<>>

----------------------------------------------------------------------------
(* Claims: Group Debate *)

DebateThreads ==
    {t \in DOMAIN active_threads : active_threads[t].pattern = "group_chat_debate"}

\* a round's contributions reach the consensus threshold: their average
\* confidence times min(n / 5, 1) is at least 0.70
RoundAgrees(contributions) ==
    LET n == Len(contributions)
    IN IF n < 5 THEN SumConfidence(contributions) >= 5 * 70
       ELSE SumConfidence(contributions) >= n * 70

\* C17: the round loop of a debate stops early only after a round with at
\* least 2 contributions whose consensus level is at least 0.70, and
\* otherwise runs all 3 rounds; two contributors who both report 0.9 do not
\* stop it early, and no debate with fewer than 4 contributors stops early.
C17_EarlyStopNeedsConsensus ==
    \A t \in DebateThreads :
        LET fl == flow[t]
            rounds == Len(fl.round_log)
        IN /\ rounds <= 3
           /\ fl.pc = "debating" => rounds < 3 /\ fl.round_num = rounds
           /\ (fl.pc = "summarizing" \/ (fl.pc = "returned" /\ ~fl.raised)) =>
                 /\ rounds >= 1
                 /\ rounds < 3 =>
                       /\ Len(fl.round_log[rounds]) >= 2
                       /\ RoundAgrees(fl.round_log[rounds])
                       /\ Len(fl.round_log[rounds]) >= 4
                       /\ Len(Debaters(active_threads[t])) >= 4
                       /\ fl.consensus_reached
                 /\ (\A k \in 1..rounds :
                        /\ Len(fl.round_log[k]) = 2
                        /\ \A i \in 1..2 : fl.round_log[k][i].confidence = 90)
                       => rounds = 3

\* C17 witness: a debate of 4 contributors stopped after its second round,
\* the first round having fallen short of the threshold.
C17_Witness ==
    \E t \in DebateThreads :
        /\ flow[t].pc = "summarizing"
        /\ Len(flow[t].round_log) = 2
        /\ Len(flow[t].round_log[1]) = 4
        /\ ~RoundAgrees(flow[t].round_log[1])

\* C17 witness: two contributors reported 0.9 in every round and the debate
\* went through its 3 rounds.
C17_TwoAtNineTenths ==
    \E t \in DebateThreads :
        /\ flow[t].pc = "summarizing"
        /\ Len(flow[t].round_log) = 3
        /\ \A k \in 1..3 :
              /\ Len(flow[t].round_log[k]) = 2
              /\ \A i \in 1..2 : flow[t].round_log[k][i].confidence = 90

----------------------------------------------------------------------------
(* Claims: session status *)

\* C18: every thread is created with status active and, once
\* start_conversation has returned, has made exactly one status transition:
\* to completed if and only if the result has success = true, to failed if
\* and only if it has success = false; a completed or failed thread never
\* changes status again.
C18_OneStatusTransition ==
    /\ [](\A t \in Threads :
            /\ t \in DOMAIN active_threads =>
                  /\ active_threads[t].status \in {"active", "completed", "failed"}
                  /\ active_threads[t].status = "active" <=> ~results[t].returned
            /\ results[t].returned =>
                  /\ t \in DOMAIN active_threads
                  /\ active_threads[t].status = "completed" <=> results[t].success
                  /\ active_threads[t].status = "failed" <=> ~results[t].success)
    /\ [][\A t \in DOMAIN active_threads :
            /\ t \in DOMAIN active_threads'
            /\ active_threads[t].status # "active" =>
                  /\ active_threads'[t].status = active_threads[t].status
                  /\ results'[t] = results[t]]_vars

\* C18 witness: one thread has completed with success, the other has failed
\* after having been seen active.
C18_Witness ==
    /\ DOMAIN active_threads = Threads
    /\ \E t, u \in Threads :
          /\ active_threads[t].status = "completed" /\ results[t].success
          /\ active_threads[u].status = "failed" /\ ~results[u].success
          /\ flow[u].raised

\* C19: start_conversation called with a pattern that has no execution
\* strategy (handoff_routing, hierarchical_coordination) is rejected as a
\* caller error without creating a session: no thread is added to
\* active_threads, no result is produced and no worker is invoked.
C19_UnsupportedPatternRejected ==
    /\ \A t \in DOMAIN active_threads :
          active_threads[t].pattern \notin {"handoff_routing", "hierarchical_coordination"}
    /\ \A t \in Threads :
          results[t].returned =>
              results[t].final_response # FailureText(Unsupported("handoff_routing"))

----------------------------------------------------------------------------
(* Claims: rate limiting of requests *)

\* the client has used up its limit: check_rate_limit would refuse it now
OverLimit(c) ==
    /\ c \in DOMAIN rate_limits
    /\ Len(CleanOld(rate_limits[c].requests, now)) >= RateLimit

\* C20: a request from a client that has exceeded its rate limit is rejected
\* by orchestrate_response before any worker is selected or invoked, and no
\* session is created or updated for it.
C20_OverLimitRejected ==
    [][OverLimit("heavy") =>
          /\ active_sessions' = active_sessions
          /\ expert_performance' = expert_performance
          /\ reply' = reply]_vars

----------------------------------------------------------------------------
(* Claims: circuit breakers and the execution strategies *)

\* check_circuit_breaker would refuse a call to the worker now
Refused(e) ==
    /\ BreakerState(e) = "open"
    /\ ~CooldownElapsed(circuit_breakers[e].last_failure, now)

\* C21: no execution strategy invokes a worker whose circuit breaker is
\* open: no invocation of a worker starts (its in-flight counter goes up)
\* while check_circuit_breaker would refuse the worker.
C21_OpenBreakerExcluded ==
    [][\A e \in ConvExperts : Refused(e) => expert_load'[e] <= expert_load[e]]_vars

----------------------------------------------------------------------------
(* Claims: busy markers and the in-flight counter *)

\* the invocations of worker e that session t has in flight: each one marked
\* e busy and counted itself in expert_load
InFlight(t, e) ==
    LET fl == flow[t]
    IN (IF fl.pc = "invoking" /\ active_threads[t].participants[fl.i] = e THEN 1 ELSE 0)
       + (IF fl.pc = "running"
          THEN Cardinality({k \in 1..Len(fl.tasks) :
                               fl.tasks[k].st = "sleeping" /\ fl.tasks[k].expert = e})
          ELSE 0)

Ended(t) == results[t].returned

RECURSIVE InFlightOf(_, _)
InFlightOf(ts, e) ==
    IF ts = {} THEN 0
    ELSE LET t == CHOOSE u \in ts : TRUE
         IN InFlight(t, e) + InFlightOf(ts \ {t}, e)

\* C22: when a session has ended, on the success path or on the failure
\* path, it has no invocation in flight, and no busy marker or load
\* increment of an ended session remains: a worker is busy exactly when a
\* session that has not ended has an invocation of it in flight, and its
\* load is the number of those invocations.
C22_MarkersReleased ==
    \A e \in ConvExperts :
        LET running == {t \in Threads : ~Ended(t)}
        IN /\ \A t \in Threads : Ended(t) => InFlight(t, e) = 0
           /\ expert_load[e] = InFlightOf(running, e)
           /\ expert_availability[e] <=> InFlightOf(running, e) = 0

\* C22 witness: a session has ended on the failure path after it had marked
\* a worker busy, the other session has ended with a message of the same
\* worker, and every worker is available.
C22_Witness ==
    \E t, u \in Threads :
        /\ Ended(t) /\ ~results[t].success /\ flow[t].raised
        /\ Ended(u) /\ results[u].success /\ results[u].message_count > 0
        /\ active_threads[t].participants[flow[t].i]
              \in Elements(active_threads[u].participants)
        /\ \A e \in ConvExperts : expert_availability[e] /\ expert_load[e] = 0

\* C23: under every interleaving of sequential and concurrent sessions that
\* share workers, expert_load of every worker is never negative, and it is
\* 0 when no session is running.
C23_LoadNeverNegative ==
    \A e \in ConvExperts :
        /\ expert_load[e] >= 0
        /\ (\A t \in Threads : flow[t].pc \in {"idle", "returned"}) => expert_load[e] = 0

\* C23 witness: a sequential and a concurrent session ran interleaved on a
\* shared worker, one of them found it busy, both have returned and the
\* load is 0.
C23_Witness ==
    \E t, u \in Threads :
        /\ t \in DOMAIN active_threads /\ u \in DOMAIN active_threads
        /\ active_threads[t].pattern = "sequential_chain"
        /\ active_threads[u].pattern = "concurrent_processing"
        /\ flow[t].pc = "returned" /\ flow[u].pc = "returned"
        /\ flow[t].skipped # {}
        /\ results[u].message_count > 0
        /\ \A e \in ConvExperts : expert_load[e] = 0

----------------------------------------------------------------------------
(* Claims: message cap *)

\* C24: no session ever holds more than 50 messages (max_messages_per_thread),
\* in its thread or in its discussion, and a session that returns with
\* success reports at most 50 messages.
C24_MessageCap ==
    \A t \in DOMAIN active_threads :
        /\ Len(active_threads[t].messages) <= max_messages_per_thread
        /\ Len(flow[t].discussion_messages) <= max_messages_per_thread
        /\ (results[t].returned /\ results[t].success) =>
              results[t].message_count <= max_messages_per_thread

----------------------------------------------------------------------------
(* Claims: session records and the task queue *)

\* C25: after any sequence of orchestrate_response calls a session record
\* exists for a session id exactly when a request was submitted with that
\* id, its interaction count is the number of requests submitted with the
\* id, and no session record is ever removed.
C25_SessionLedger ==
    /\ [](/\ DOMAIN active_sessions = DOMAIN submitted
          /\ \A s \in DOMAIN submitted :
                active_sessions[s].interaction_count = submitted[s])
    /\ [][DOMAIN active_sessions \subseteq DOMAIN active_sessions']_vars

\* C25 witness: two requests were submitted with one id and one, which
\* failed, with another.
C25_Witness ==
    /\ DOMAIN active_sessions = {"s1", "s2"}
    /\ active_sessions["s1"].interaction_count = 2
    /\ active_sessions["s2"].interaction_count = 1
    /\ reply.done /\ reply.raised /\ reply.session_id = "s2"

\* C26: each orchestrate_response call that returns for a request whose
\* complexity score is above 1.0 adds exactly one entry to the task queue,
\* and a call for any other request adds none, so that the queue length is
\* the number of requests that were decomposed.
C26_OneEntryPerDecomposition ==
    [][(submitted' # submitted /\ ~reply'.raised) =>
          Len(task_queue') = Len(task_queue)
              + (IF reply'.complexity_score > Sequential4 THEN 1 ELSE 0)]_vars

\* C27: orchestrate_response returns a task graph if and only if the chosen
\* pattern is sequential, concurrent or hierarchical: a handoff request has
\* none, and every other request, one whose score is exactly 1.0 included,
\* has one.
C27_GraphIffNotHandoff ==
    (reply.done /\ ~reply.raised) =>
        (reply.task_decomposition # <<>> <=> reply.orchestration_pattern # "handoff")

----------------------------------------------------------------------------
(* Claims: task decomposition *)

\* the call of the builder for `pattern` has been made
BuilderDone(pattern) == builder_call.done /\ builder_call.pattern = pattern

\* the ids of the first n subtasks
IdsBefore(subtasks, n) == {subtasks[j].id : j \in 1..n}

\* C28: for every list of selected workers and each of the three decomposing
\* patterns the builder completes, and every dependency id of a subtask is
\* the id of a subtask created earlier in the same graph.
C28_DependenciesPointBack ==
    builder_call.done =>
        /\ ~builder_call.result.raised
        /\ LET subtasks == builder_call.result.subtasks
           IN \A k \in 1..Len(subtasks) :
                  Elements(subtasks[k].dependencies) \subseteq IdsBefore(subtasks, k - 1)

\* C29: for every number n >= 0 of selected workers the concurrent
\* decomposition is built without error and consists of n parallel subtasks
\* without dependencies followed by one aggregation subtask that depends on
\* exactly the ids of all n parallel subtasks.
C29_AggregationDependsOnAll ==
    BuilderDone("concurrent") =>
        /\ ~builder_call.result.raised
        /\ LET subtasks == builder_call.result.subtasks
               n == Len(builder_call.experts)
           IN /\ Len(subtasks) = n + 1
              /\ \A k \in 1..n : /\ subtasks[k].type = "parallel"
                                  /\ subtasks[k].expert = builder_call.experts[k]
                                  /\ subtasks[k].dependencies = <<>>
              /\ subtasks[n + 1].type = "aggregation"
              /\ Elements(subtasks[n + 1].dependencies) = IdsBefore(subtasks, n)

\* C30: in the sequential decomposition the first subtask has no
\* dependencies and every later subtask depends on exactly one id, that of
\* its immediate predecessor.
C30_DependsOnPredecessorOnly ==
    (BuilderDone("sequential") /\ ~builder_call.result.raised) =>
        LET subtasks == builder_call.result.subtasks
        IN \A k \in 1..Len(subtasks) :
               subtasks[k].dependencies =
                   IF k = 1 THEN <<>> ELSE <<subtasks[k - 1].id>>

\* the ids of the subtasks of a level
IdsOfLevel(subtasks, level) ==
    {subtasks[j].id : j \in {i \in 1..Len(subtasks) : subtasks[i].level = level}}

\* C31: the hierarchical decomposition is built without error for every list
\* of selected workers; every level-2 development subtask depends on exactly
\* the level-1 ids and the level-3 testing subtask on exactly the level-2 ids.
C31_LevelsDependOnLevelAbove ==
    BuilderDone("hierarchical") =>
        /\ ~builder_call.result.raised
        /\ LET subtasks == builder_call.result.subtasks
           IN \A k \in 1..Len(subtasks) :
                  subtasks[k].level > 1 =>
                      Elements(subtasks[k].dependencies)
                          = IdsOfLevel(subtasks, subtasks[k].level - 1)

\* the messages of a debate that are not the facilitator's
ContributorMessages(t) ==
    SelectSeq(flow[t].discussion_messages,
              LAMBDA m : m.expert_name # Facilitator(active_threads[t]))

\* C32: every Group Debate run in which no invocation raised returns a
\* result with success = true whose consensus level is the consensus function
\* of the contributors' messages, however many contributors and rounds.
C32_DebateReturnsConsensus ==
    \A t \in DebateThreads :
        (flow[t].pc = "returned" /\ ~flow[t].raised) =>
            /\ results[t].success
            /\ results[t].consensus_level = ConsensusLevel(ContributorMessages(t))

\* an approval score of at least 0.80
AtLeastFourFifths(score) == score.num * 5 >= score.den * 4 * 100

\* C33: a Maker-Checker Loop that returned stopped at the first iteration
\* whose approval score is at least 0.80; its final output carries the
\* approval note, with the checker's name and the iteration count, exactly
\* when the last score is at least 0.80, and the best-effort note exactly when
\* 3 iterations ran and none reached 0.80; it reports 2 messages per iteration.
C33_ApprovalNote ==
    \A t \in LoopThreads :
        (results[t].returned /\ results[t].success) =>
            LET history == flow[t].feedback_history
                iterations == Len(history)
                note == results[t].final_response[2]
            IN /\ iterations \in 1..3
               /\ \A k \in 1..(iterations - 1) : ~AtLeastFourFifths(history[k].approval_score)
               /\ ~AtLeastFourFifths(history[iterations].approval_score) => iterations = 3
               /\ note.part \in {"Approved by", "Completed after"}
               /\ note.part = "Approved by" <=>
                     AtLeastFourFifths(history[iterations].approval_score)
               /\ note.part = "Approved by" =>
                     /\ note.checker = Checker(active_threads[t])
                     /\ note.iterations = iterations
               /\ note.part = "Completed after" <=>
                     /\ iterations = 3
                     /\ \A k \in 1..3 : ~AtLeastFourFifths(history[k].approval_score)
               /\ note.part = "Completed after" => note.iterations = 3
               /\ results[t].message_count = 2 * iterations

\* C33 witness: a loop approved at its second iteration, by a checker other
\* than the maker, after a first review that fell short.
C33_Witness ==
    \E t \in LoopThreads :
        /\ results[t].returned /\ results[t].success
        /\ Len(flow[t].feedback_history) = 2
        /\ results[t].final_response[2].part = "Approved by"
        /\ results[t].final_response[2].iterations = 2
        /\ Checker(active_threads[t]) # Maker(active_threads[t])
        /\ results[t].message_count = 4

----------------------------------------------------------------------------
(* Claims: circuit breaker lifecycle *)

BreakerFailures(e) ==
    IF e \in DOMAIN circuit_breakers THEN circuit_breakers[e].failures ELSE 0

\* C34: over every sequence of check_circuit_breaker and record_failure calls
\* a breaker's failure count never decreases and a breaker that has left
\* closed never returns to closed; a half_open breaker permits every call
\* checked against it and stays half_open until the next recorded failure,
\* which reopens it.
C34_NeverClosesAgain ==
    [][\A e \in BreakerExperts :
          /\ BreakerFailures(e)' >= BreakerFailures(e)
          /\ BreakerState(e) # "closed" => BreakerState(e)' # "closed"
          /\ BreakerState(e) = "half_open" =>
                /\ BreakerFailures(e)' = BreakerFailures(e) => BreakerState(e)' = "half_open"
                /\ BreakerFailures(e)' > BreakerFailures(e) => BreakerState(e)' = "open"
                /\ (last_check' # last_check /\ last_check'.expert = e)
                      => last_check'.permitted]_vars

\* C34 witness: a breaker that a check found or made half_open is open again
\* after its 4th recorded failure.
C34_Witness ==
    \E e \in BreakerExperts :
        /\ last_check.expert = e /\ last_check.state = "half_open" /\ last_check.permitted
        /\ BreakerState(e) = "open"
        /\ BreakerFailures(e) = 4

----------------------------------------------------------------------------
(* Claims: Concurrent Fan-out, completion *)

\* the dicts among the tasks' results, in the order of the tasks
InTaskOrder(tasks) ==
    LET kept == {k \in 1..Len(tasks) : tasks[k].outcome.kind \in {"response", "error"}}
        Nth(i) == CHOOSE k \in kept : Cardinality({j \in kept : j <= k}) = i
    IN [i \in 1..Cardinality(kept) |-> tasks[Nth(i)].outcome]

\* C35: the result of a Concurrent Fan-out is built only after every launched
\* invocation has finished, and its synthesized output is determined by the
\* participants and their outputs in participant order: it is the same
\* whatever the order in which the invocations finished.
C35_CompletionOrderFree ==
    \A t \in ConcurrentThreads :
        results[t].returned =>
            LET tasks == flow[t].tasks
            IN /\ \A k \in 1..Len(tasks) :
                     tasks[k].st = "done" /\ tasks[k].rank \in 1..Len(tasks)
               /\ results[t].success
               /\ results[t].final_response = SynthesizeConcurrent(InTaskOrder(tasks))
               /\ results[t].message_count = Len(InTaskOrder(tasks))

\* C35 witness: a returned fan-out whose second task finished before its
\* first, where synthesizing in order of completion would give another output.
C35_Witness ==
    \E t \in ConcurrentThreads :
        /\ results[t].returned
        /\ Len(flow[t].tasks) >= 2
        /\ flow[t].tasks[2].rank < flow[t].tasks[1].rank
        /\ flow[t].tasks[1].outcome.kind = "response"
        /\ flow[t].tasks[2].outcome.kind = "response"
        /\ SynthesizeConcurrent(CompletedResponses(flow[t].tasks)) # results[t].final_response

\* C36: every entry a Concurrent Fan-out aggregates is the output of an
\* invocation that ran and returned: a worker found busy when its task starts
\* adds nothing to the final response, the message count or the contributions.
C36_OnlyReturnedAggregated ==
    \A t \in ConcurrentThreads :
        results[t].returned =>
            LET tasks == flow[t].tasks
                ran == {k \in 1..Len(tasks) : tasks[k].outcome.kind = "response"}
                r == results[t]
            IN /\ r.message_count = Cardinality(ran)
               /\ Len(ContributionParts(r.final_response)) = Cardinality(ran)
               /\ \A i \in 1..Len(r.final_response) :
                     r.final_response[i].part = "contribution" =>
                        \E k \in ran :
                            /\ r.final_response[i].expert = tasks[k].expert
                            /\ r.final_response[i].content = tasks[k].outcome.content
               /\ \A e \in DOMAIN r.expert_contributions :
                     r.expert_contributions[e].kind = "response"

----------------------------------------------------------------------------
(* Claims: one invocation per worker *)

\* the invocations of worker e that session t is waiting for, in any pattern
Invocations(t, e) ==
    LET fl == flow[t]
    IN InFlight(t, e)
       + (IF fl.pc = "debating" /\ Debaters(active_threads[t])[fl.i] = e THEN 1 ELSE 0)
       + (IF fl.pc = "summarizing" /\ Facilitator(active_threads[t]) = e THEN 1 ELSE 0)
       + (IF fl.pc = "making" /\ Maker(active_threads[t]) = e THEN 1 ELSE 0)
       + (IF fl.pc = "checking" /\ Checker(active_threads[t]) = e THEN 1 ELSE 0)

\* C37: over all sessions running at the same time, of any pattern, no
\* worker has two invocations in flight at once.
C37_OneInvocationPerWorker ==
    \A e \in ConvExperts \cup {"backend-architect"} :
        \A t \in Threads, u \in Threads :
            t # u => Invocations(t, e) + Invocations(u, e) <= 1

----------------------------------------------------------------------------
(* Claims: performance records *)

\* C38: a performance record exists for a worker exactly when at least one
\* request had it among its selected workers, the record's total count is the
\* number of those requests, its response quality is at most 5.0 and its
\* switching efficiency at most 100, and no record is ever deleted.
C38_PerformanceLedger ==
    /\ [](/\ DOMAIN expert_performance = DOMAIN times_selected
          /\ \A e \in DOMAIN expert_performance :
                /\ times_selected[e] >= 1
                /\ expert_performance[e].total_tasks = times_selected[e]
                /\ expert_performance[e].response_quality <= 500
                /\ expert_performance[e].switching_efficiency <= 200)
    /\ [][DOMAIN expert_performance \subseteq DOMAIN expert_performance']_vars

\* C38 witness: a worker selected by 52 requests holds both caps, a worker
\* selected once has a fresh record, and the last request raised and left
\* the records as they were.
C38_Witness ==
    /\ DOMAIN expert_performance = {"postgres-expert", "react-expert"}
    /\ expert_performance["react-expert"].total_tasks = 52
    /\ expert_performance["react-expert"].response_quality = 500
    /\ expert_performance["react-expert"].switching_efficiency = 200
    /\ expert_performance["postgres-expert"].total_tasks = 1
    /\ reply.done /\ reply.raised

----------------------------------------------------------------------------
(* Claims: recent-usage bonus *)

\* the recently-used list of a session, as orchestrate_response wrote it
RecentOf(session_id) ==
    LET cache == SessionContext(session_id)
    IN IF "recent_experts" \in DOMAIN cache THEN cache.recent_experts ELSE <<>>

\* C39: in a call of select_experts every registered worker whose id is among
\* the last 3 entries of the session's recently-used list is scored with the
\* 0.1 bonus (before the cap at 1.0 and the performance modifier), and every
\* other worker without it; the list is the one orchestrate_response wrote.
C39_RecentBonus ==
    [][selection' # selection =>
          \A k \in 1..Len(expert_library) :
              LET item == expert_library[k]
                  bonus == IF item.expert_name
                                \in Elements(LastOf(RecentOf(selection'.session_id), 3))
                           THEN 60 ELSE 0
                  base == ExpertScore(selection'.request, item.expert_data, <<>>).value
                  modifier == IF item.expert_name \in DOMAIN expert_performance
                              THEN PerformanceModifier(expert_performance[item.expert_name])
                              ELSE Neutral
              IN selection'.scores[k].score.value = Min(600, base + bonus) * modifier]_vars

----------------------------------------------------------------------------
(* Claims: size of the selection *)

\* C40: the selected_experts of every reply of orchestrate_response has at
\* most 5 entries, whether it comes from select_experts or from the
\* decomposition of the request.
C40_AtMostFiveSelected ==
    (reply.done /\ ~reply.raised) => Len(reply.selected_experts) <= 5

====
